---- MODULE Spec2Model ----
(***************************************************************************)
(* funds_expenses_etl: the per-file pipeline of src/main.py process_file:  *)
(* a custodian extractor normalizes the raw rows, ExpenseTransformer       *)
(* .transform classifies them and redistributes rows of a parent fund      *)
(* (FIDC) among its child funds (FICs).                                    *)
(*                                                                         *)
(* Text is modelled character by character: a string is a sequence of      *)
(* characters, so that substring tests, upper(), strip() and replace() are *)
(* computed as Python computes them.  An accented letter is one character  *)
(* written as its base letter followed by the mark ("E^" is E with         *)
(* circumflex, "c," is c with cedilla, "a~" is a with tilde, "o'" is o     *)
(* with acute).  Type and category labels, which the code only compares    *)
(* for equality, are plain TLA+ strings (accents dropped in the label).    *)
(***************************************************************************)
EXTENDS Integers, Sequences, FiniteSets, TLC

VARIABLES custodiante, raw, cfg, df, pc, fi, rng, run, first,
          files, file_no, all_dfs, reported, sink

\* the state of process_directory: the files listed, the position of its loop,
\* the tables appended and the files whose processing raised; and the state of
\* DataLoader.save_to_mysql: the destination table and the calls made on it
dir_vars == <<files, file_no, all_dfs, reported, sink>>

vars == <<custodiante, raw, cfg, df, pc, fi, rng, run, first, dir_vars>>

(***************************************************************************)
(* Bounds of the model.                                                    *)
(***************************************************************************)
\* rows per batch in the scenario batches
MaxBatch == 2
\* rows per batch in the redistribution batches
MaxRows == 4
\* rows per batch in the extraction batches
MaxRawRows == 1

(***************************************************************************)
(* Python str operations on character sequences.                           *)
(***************************************************************************)
\* None / NaN in a text column (never equal to a string)
Null == <<"<None>">>

IsStr(s) == s # Null

\* str(None)
NoneStr == <<"N","o","n","e">>

PlainLower ==
  <<"a","b","c","d","e","f","g","h","i","j","k","l","m","n","o","p","q","r",
    "s","t","u","v","w","x","y","z">>

PlainUpper ==
  <<"A","B","C","D","E","F","G","H","I","J","K","L","M","N","O","P","Q","R",
    "S","T","U","V","W","X","Y","Z">>

AccentLower == <<"a'","a~","a^","c,","e'","e^","i'","o'","o~","o^","u'">>

AccentUpper == <<"A'","A~","A^","C,","E'","E^","I'","O'","O~","O^","U'">>

\* the letters left of the accented characters once the mark is dropped
AccentLowerBase == <<"a","a","a","c","e","e","i","o","o","o","u">>

AccentUpperBase == <<"A","A","A","C","E","E","I","O","O","O","U">>

LowerChars == PlainLower \o AccentLower

UpperChars == PlainUpper \o AccentUpper

\* the function taking to[i] for from[i], written out pair by pair
Table(from, to) ==
  [c \in {from[i] : i \in 1..Len(from)} |->
     to[CHOOSE i \in 1..Len(from) : from[i] = c]] @@ <<>>

UpperTable == Table(LowerChars, UpperChars)

LowerTable == Table(UpperChars, LowerChars)

AsciiTable == Table(AccentLower \o AccentUpper, AccentLowerBase \o AccentUpperBase)

\* the image of c under the table, c itself when the table has no entry for it
MapChar(c, table) == IF c \in DOMAIN table THEN table[c] ELSE c

UpperChar(c) == MapChar(c, UpperTable)

LowerChar(c) == MapChar(c, LowerTable)

\* unicodedata.normalize('NFKD', c).encode('ASCII', 'ignore'): the mark is dropped
AsciiChar(c) == MapChar(c, AsciiTable)

\* the sequence f, written out element by element
Tuple(f) == f \o <<>>

\* s.upper()
Upper(s) == Tuple([i \in 1..Len(s) |-> UpperChar(s[i])])

\* s.lower()
Lower(s) == Tuple([i \in 1..Len(s) |-> LowerChar(s[i])])

\* s.strip()
Strip(s) ==
  LET keep == {i \in 1..Len(s) : s[i] # " "}
  IN IF keep = {} THEN <<>>
     ELSE SubSeq(s, CHOOSE i \in keep : \A j \in keep : i <= j,
                    CHOOSE i \in keep : \A j \in keep : j <= i)

\* s[i:].startswith(p), i counted from 1
StartsAt(p, s, i) ==
  /\ i + Len(p) - 1 <= Len(s)
  /\ \A j \in 1..Len(p) : s[i + j - 1] = p[j]

\* p in s
Contains(p, s) == \E i \in 1..(Len(s) + 1) : StartsAt(p, s, i)

RECURSIVE Replace(_, _, _)
\* s.replace(old, new), old not empty
Replace(s, old, new) ==
  IF s = <<>> THEN <<>>
  ELSE IF StartsAt(old, s, 1)
       THEN new \o Replace(SubSeq(s, Len(old) + 1, Len(s)), old, new)
       ELSE <<s[1]>> \o Replace(Tail(s), old, new)

\* the least element of a non-empty set of integers
Least(S) == CHOOSE i \in S : \A j \in S : i <= j

(***************************************************************************)
(* ExpenseTransformer._determine_fund_type                                 *)
(***************************************************************************)
suffixes_to_ignore ==
  <<
    <<"R","L">>,
    <<"-"," ","R","L">>,
    <<"R","E","S","P"," ","L","I","M","I","T","A","D","A">>,
    <<"R","E","S","P","O","N","S","A","B","I","L","I","D","A","D"," ","L","I","M","I","T","A","D","A">>,
    <<"R","E","S","P","O","N","S","A","B","I","L","I","D","A","D","E"," ","L","I","M","T","A","D","A">>,
    <<"R","E","S","P","O","N","S","A","B","I","L","I","D","A","D","E"," ","L","I","M","I","T","A","D","A">>,
    <<"N","P">>,
    <<"-"," ","N","P">>,
    <<"S","U","B","O","R","D","I","N","A","D","A">>,
    <<"-"," ","S","U","B","O","R","D","I","N","A","D","A">> >>

patterns ==
  <<
    [fund_type |-> "FIDC", type_patterns |-> <<
        <<"F","I","D","C">>,
        <<"F","U","N","D","O"," ","D","E"," ","I","N","V","E","S","T","I","M","E","N","T","O"," ","E","M"," ","D","I","R","E","I","T","O","S"," ","C","R","E","D","I","T","O'","R","I","O","S">>,
        <<"F","U","N","D","O"," ","D","E"," ","I","N","V","E","S","T","I","M","E","N","T","O"," ","E","M"," ","D","I","R","E","I","T","O","S">>,
        <<"F","U","N","D","O"," ","D","E"," ","I","N","V","E","S","T","."," ","E","M"," ","D","I","R","E","I","T","O","S">>,
        <<"F","U","N","D","O"," ","D","E"," ","I","N","V","E","S","T","I","M","E","N","T","O"," ","E","M"," ","D","C">>,
        <<"E","M"," ","D","I","R","E","I","T","O","S"," ","C">> >>],
    [fund_type |-> "FICFIDC", type_patterns |-> <<
        <<"F","I","C","F","I","D","C">>,
        <<"F","I","C"," ","F","I","D","C">>,
        <<"F","U","N","D","O"," ","D","E"," ","I","N","V","E","S","T","I","M","E","N","T","O"," ","E","M"," ","C","O","T","A","S"," ","D","E"," ","F","U","N","D","O","S"," ","D","E"," ","I","N","V","E","S","T","I","M","E","N","T","O"," ","E","M"," ","D","I","R","E","I","T","O","S">> >>],
    [fund_type |-> "FIC FIM", type_patterns |-> <<
        <<"F","I","C"," ","F","I","M">>,
        <<"F","C"," ","F","I","M">>,
        <<"F","I","C"," ","D","E"," ","F","I","M">>,
        <<"F","U","N","D","O"," ","D","E"," ","I","N","V","E","S","T","I","M","E","N","T","O"," ","E","M"," ","C","O","T","A","S"," ","D","E"," ","F","U","N","D","O"," ","M","U","L","T","I","M","E","R","C","A","D","O">> >>],
    [fund_type |-> "FICFIM", type_patterns |-> <<
        <<"F","I","C","F","I","M">>,
        <<"F","I","C"," ","F","I","M">> >>],
    [fund_type |-> "FICFIM CP", type_patterns |-> <<
        <<"F","I","C","F","I","M"," ","C","P">>,
        <<"F","I","C"," ","F","I","M"," ","C","P">>,
        <<"F","I","C"," ","D","E"," ","F","I","M"," ","C","P">> >>],
    [fund_type |-> "FIM", type_patterns |-> <<
        <<"F","I","M">>,
        <<"F","U","N","D","O"," ","D","E"," ","I","N","V","E","S","T","I","M","E","N","T","O"," ","M","U","L","T","I","M","E","R","C","A","D","O">>,
        <<"M","U","L","T","I","M","E","R","C","A","D","O">> >>],
    [fund_type |-> "FIC", type_patterns |-> <<
        <<"F","I","C">>,
        <<"F","C">>,
        <<"F","U","N","D","O"," ","D","E"," ","I","N","V","E","S","T","I","M","E","N","T","O"," ","E","M"," ","C","O","T","A","S">> >>],
    [fund_type |-> "FIM CP", type_patterns |-> <<
        <<"F","I","M"," ","C","P">> >>],
    [fund_type |-> "FIA", type_patterns |-> <<
        <<"F","I","A">>,
        <<"F","U","N","D","O"," ","D","E"," ","I","N","V","E","S","T","I","M","E","N","T","O"," ","E","M"," ","A","C,","O~","E","S">> >>],
    [fund_type |-> "FICFIA", type_patterns |-> <<
        <<"F","I","C","F","I","A">>,
        <<"F","I","C"," ","F","I","A">>,
        <<"F","U","N","D","O"," ","D","E"," ","I","N","V","E","S","T","I","M","E","N","T","O"," ","E","M"," ","C","O","T","A","S"," ","D","E"," ","F","U","N","D","O"," ","D","E"," ","A","C,","O~","E","S">> >>] >>

RECURSIVE RemoveSuffixes(_, _)
\* the loop over suffixes_to_ignore, from suffix i on
RemoveSuffixes(clean_name, i) ==
  IF i > Len(suffixes_to_ignore) THEN clean_name
  ELSE RemoveSuffixes(
         IF Contains(suffixes_to_ignore[i], clean_name)
         THEN Strip(Replace(clean_name, suffixes_to_ignore[i], <<>>))
         ELSE clean_name,
         i + 1)

\* some pattern of the list occurs in the name
AnyPatternIn(type_patterns, clean_name) ==
  \E j \in 1..Len(type_patterns) : Contains(type_patterns[j], clean_name)

\* the table loop without its early return: the last entry with a pattern in
\* the name wins
LastPattern(clean_name) ==
  LET hits == {k \in 1..Len(patterns) :
                 AnyPatternIn(patterns[k].type_patterns, clean_name)}
  IN IF hits = {} THEN 0 ELSE CHOOSE k \in hits : \A j \in hits : j <= k

\* the first table entry, in the order of patterns.items(), with a pattern in
\* the name; 0 when none
FirstPattern(clean_name) ==
  LET hits == {k \in 1..Len(patterns) :
                 AnyPatternIn(patterns[k].type_patterns, clean_name)}
  IN IF hits = {} THEN 0 ELSE Least(hits)

\* the checks after the table (transformer.py 206-227)
FallbackType(clean_name) ==
  IF \/ Contains(<<" ","E","M"," ","D","C">>, clean_name)
     \/ Contains(<<"E","M"," ","D","I","R","E","I","T","O","S">>, clean_name)
  THEN "FIDC"
  ELSE IF Contains(<<"F","I","D","C">>, clean_name) THEN "FIDC"
  ELSE IF Contains(<<"F","I","C"," ","F","I","M"," ","C","P">>, clean_name) THEN "FICFIM CP"
  ELSE IF Contains(<<"F","I","C"," ","F","I","M">>, clean_name) THEN "FICFIM"
  ELSE IF /\ Contains(<<"F","I","C">>, clean_name)
          /\ Contains(<<"F","I","M">>, clean_name) THEN "FICFIM"
  ELSE IF Contains(<<"F","I","M"," ","C","P">>, clean_name) THEN "FIM CP"
  ELSE IF Contains(<<"F","I","M">>, clean_name) THEN "FIM"
  ELSE IF Contains(<<"F","I","C">>, clean_name) THEN "FIC"
  ELSE "Outro"

determine_fund_type(fund_name) ==
  IF ~IsStr(fund_name) \/ fund_name = <<>> THEN "Outro"
  ELSE LET clean_name == RemoveSuffixes(Strip(Upper(fund_name)), 1)
           hit == FirstPattern(clean_name)
       IN IF hit # 0 THEN patterns[hit].fund_type ELSE FallbackType(clean_name)

(***************************************************************************)
(* ExpenseTransformer._determine_fic_type (the second definition, the one  *)
(* Python keeps)                                                           *)
(***************************************************************************)
determine_fic_type(fic_name) ==
  IF ~IsStr(fic_name) \/ fic_name = <<>> THEN "Outro"
  ELSE LET name == Strip(Upper(fic_name))
       IN IF Contains(<<"F","I","C"," ","F","I","M"," ","C","P">>, name) THEN "FICFIM CP"
          ELSE IF Contains(<<"F","I","C"," ","F","I","M">>, name) THEN "FICFIM"
          ELSE IF Contains(<<"F","I","C"," ","F","I","A">>, name) THEN "FICFIA"
          ELSE IF Contains(<<"F","I","C">>, name) THEN "FIC"
          ELSE IF Contains(<<"F","I","M"," ","C","P">>, name) THEN "FIM CP"
          ELSE IF Contains(<<"F","I","M">>, name) THEN "FIM"
          ELSE IF Contains(<<"F","I","A">>, name) THEN "FIA"
          ELSE "Outro"

(***************************************************************************)
(* ExpenseTransformer._standardize_fund_types                              *)
(***************************************************************************)
type_mapping ==
  << <<"FIC FIM", "FICFIM">>,
     <<"FIC II", "FIC">>,
     <<"FIM CP", "FIM CP">>,
     <<"FICFIM CP", "FICFIM CP">>,
     <<"FIDC", "FIDC">>,
     <<"FICFIDC", "FICFIDC">>,
     <<"FIP", "FIP">>,
     <<"FIM", "FIM">>,
     <<"FIA", "FIA">>,
     <<"FICFIA", "FICFIA">>,
     <<"FICFIM", "FICFIM">>,
     <<"FIC", "FIC">> >>

\* the mapping with 'FIC II' sent to 'FIC FIM', a label the mapping rewrites
standardize_fund_type_chained(x) ==
  IF x = "FIC II" THEN "FIC FIM"
  ELSE IF \E i \in 1..Len(type_mapping) : type_mapping[i][1] = x
  THEN type_mapping[CHOOSE i \in 1..Len(type_mapping) : type_mapping[i][1] = x][2]
  ELSE x

\* the standardization left out: the type stays as it was resolved
standardize_fund_type_skipped(x) == x

\* type_mapping.get(x, x)
standardize_fund_type(x) ==
  IF \E i \in 1..Len(type_mapping) : type_mapping[i][1] = x
  THEN type_mapping[CHOOSE i \in 1..Len(type_mapping) : type_mapping[i][1] = x][2]
  ELSE x

(***************************************************************************)
(* ExpenseTransformer._apply_manual_fund_type_mapping                      *)
(***************************************************************************)
manual_mapping ==
  <<
    [key |-> <<"A","L","B","A","R","E","D","O"," ","F","I","D","C">>,
     fund_type |-> "FIDC"],
    [key |-> <<"Z"," ","I","N","V","E","S","T"," ","F","I","D","C">>,
     fund_type |-> "FIDC"],
    [key |-> <<"S","C"," ","F","U","N","D","O"," ","D","E"," ","I","N","V","E","S","T","I","M","E","N","T","O"," ","E","M"," ","D","C">>,
     fund_type |-> "FIDC"],
    [key |-> <<"P","R","I","M","E"," ","A","G","R","O"," ","F","I","D","C">>,
     fund_type |-> "FIDC"],
    [key |-> <<"G","R","U","P","O"," ","P","R","I","M","E"," ","A","G","R","O"," ","F","I","C">>,
     fund_type |-> "FICFIM"],
    [key |-> <<"G","L","O","B","A","L"," ","F","U","T","U","R","A"," ","F","I","D","C">>,
     fund_type |-> "FIDC"],
    [key |-> <<"B","A","S","A~">>,
     fund_type |-> "FIDC"],
    [key |-> <<"B","L","U","E"," ","R","O","C","K","E","T"," ","F","I","D","C">>,
     fund_type |-> "FIDC"],
    [key |-> <<"V","I","S","H","N","U"," ","F","U","N","D","O">>,
     fund_type |-> "FIDC"],
    [key |-> <<"A","F","6"," ","F","I","D","C">>,
     fund_type |-> "FIDC"],
    [key |-> <<"B","E","L","L"," ","F","U","N","D","O">>,
     fund_type |-> "FIDC"],
    [key |-> <<"V","E","R","G","I","N","I","A"," ","F","U","N","D","O">>,
     fund_type |-> "FIDC"],
    [key |-> <<"B","O","N","T","E","M","P","O"," ","F","I","D","C">>,
     fund_type |-> "FIDC"],
    [key |-> <<"P","I","N","P","A","G"," ","F","I","D","C">>,
     fund_type |-> "FIDC"],
    [key |-> <<"B","E","L","L","I","N"," ","F","I","C">>,
     fund_type |-> "FICFIM"],
    [key |-> <<"N","I","N","E"," ","C","A","P","I","T","A","L"," ","F","I","D","C">>,
     fund_type |-> "FIDC"],
    [key |-> <<"N","I","N","E"," ","C","A","P","I","T","A","L"," ","F","I","C">>,
     fund_type |-> "FIC"],
    [key |-> <<"M","A","S","T","R","E","N","N"," ","F","I","D","C">>,
     fund_type |-> "FIDC"],
    [key |-> <<"M","A","S","T","R","E","N","N"," ","F","I","C">>,
     fund_type |-> "FICFIM CP"],
    [key |-> <<"U","K","F"," ","F","I","D","C">>,
     fund_type |-> "FIDC"],
    [key |-> <<"U","K","F"," ","F","I","C">>,
     fund_type |-> "FIC"],
    [key |-> <<"N","R","1","1"," ","F","U","N","D","O">>,
     fund_type |-> "FIDC"],
    [key |-> <<"S","M","T"," ","A","G","R","O"," ","H","O","L","D","I","N","G">>,
     fund_type |-> "FICFIM"],
    [key |-> <<"S","M","T"," ","A","G","R","O"," ","F","U","N","D","O">>,
     fund_type |-> "FIDC"],
    [key |-> <<"T","E","R","T","O","N"," ","F","U","N","D","O">>,
     fund_type |-> "FIDC"],
    [key |-> <<"Z","A","B"," ","L","E","G","A","C","Y"," ","F","I","D","C">>,
     fund_type |-> "FIDC"],
    [key |-> <<"S","C","I"," ","S","A","O"," ","C","R"," ","F","C"," ","F","I","M"," ","C","P">>,
     fund_type |-> "FICFIM CP"],
    [key |-> <<"A","R","T","A","N","I","S"," ","F","U","N","D","O"," ","D","E"," ","I","N","V","E","S","T","I","M","E","N","T","O"," ","M","U","L","T","I","M","E","R","C","A">>,
     fund_type |-> "FIM"],
    [key |-> <<"G","O","L","I","A","T","H"," ","F","U","N","D","O"," ","D","E"," ","I","N","V","E","S","T","I","M","E","N","T","O"," ","M","U","L","T","I","M","E","R","C","A">>,
     fund_type |-> "FIM"],
    [key |-> <<"A","G","R","O","C","E","T","E"," ","F","U","N","D","O"," ","D","E"," ","I","N","V","E","S","T","I","M","E","N","T","O"," ","E","M"," ","D","I","R","E","I","T">>,
     fund_type |-> "FIDC"],
    [key |-> <<"C","R","E","D","I","L","O","G"," ","I","I"," ","-"," ","F","U","N","D","O"," ","D","E"," ","I","N","V","E","S","T","I","M","E","N","T","O"," ","E","M"," ","D">>,
     fund_type |-> "FIDC"],
    [key |-> <<"C","R","E","D","I","L","O","G"," ","-"," ","F","U","N","D","O"," ","D","E"," ","I","N","V","E","S","T","I","M","E","N","T","O"," ","E","M"," ","D","I","R","E">>,
     fund_type |-> "FIDC"],
    [key |-> <<"P","I","N","P","A","G"," "," ","F","I","D","C"," ","-"," ","R","L">>,
     fund_type |-> "FIDC"],
    [key |-> <<"C","A","P","I","T","A","L","I","Z","A"," ","F","U","N","D","O"," ","D","E"," ","I","N","V","E","S","T","I","M","E","N","T","O"," ","E","M"," ","D","I","R","E">>,
     fund_type |-> "FIDC"],
    [key |-> <<"F","U","T","U","R","O"," ","C","A","P","I","T","A","L"," ","F","U","N","D","O"," ","D","E"," ","I","N","V","E","S","T","I","M","E","N","T","O"," ","E","M">>,
     fund_type |-> "FIDC"],
    [key |-> <<"V","E","L","S","O"," ","-"," ","F","U","N","D","O"," ","D","E"," ","I","N","V","E","S","T","I","M","E","N","T","O"," ","E","M"," ","D","I","R","E","I","T","O">>,
     fund_type |-> "FIDC"],
    [key |-> <<"A","N","V","E","R","E","S"," ","F","U","N","D","O"," ","D","E"," ","I","N","V","E","S","T","I","M","E","N","T","O"," ","E","M"," ","D","I","R","E","I","T","O">>,
     fund_type |-> "FIDC"] >>

\* the type the loop over manual_mapping.items() gives a name; "Outro" stays
\* when no key occurs in it
manual_fund_type(nome_fundo) ==
  LET fund_name == Upper(nome_fundo)
      hits == {k \in 1..Len(manual_mapping) : Contains(manual_mapping[k].key, fund_name)}
  IN IF hits = {} THEN "Outro" ELSE manual_mapping[Least(hits)].fund_type

(***************************************************************************)
(* ExpenseTransformer._categorize_expenses                                 *)
(***************************************************************************)
categoria_map ==
  <<
    [categoria |-> "Taxa", keywords |-> <<
        <<"T","a","x","a">>,
        <<"T","a","r","i","f","a">>,
        <<"T","A","X","A">>,
        <<"T","A","R","I","F","A">>,
        <<"T","X",".">>,
        <<"T","X","C","U","S","U","L","T","O","R","I","A">>,
        <<"C","U","S","T","O"," ","S","E","L","I","C">> >>],
    [categoria |-> "Custo", keywords |-> <<
        <<"C","u","s","t","o">>,
        <<"C","U","S","T","O">>,
        <<"C","U","S","T","O","_","E","M","I","S","N","C">>,
        <<"C","O","S","T">> >>],
    [categoria |-> "Pagamento", keywords |-> <<
        <<"P","a","g","a","m","e","n","t","o">>,
        <<"P","A","G","A","M","E","N","T","O">>,
        <<"P","a","g","t","o">>,
        <<"P","G","T","O">> >>],
    [categoria |-> "Transferencia", keywords |-> <<
        <<"T","r","a","n","s","f","e","r","e^","n","c","i","a">>,
        <<"T","R","A","N","S","F","E","R","E^","N","C","I","A">>,
        <<"D","O","C","/","T","E","D">>,
        <<"T","E","D">>,
        <<"D","O","C">>,
        <<"T","R","A","N","S","F">> >>],
    [categoria |-> "Operacao", keywords |-> <<
        <<"O","p","e","r","a","c,","a~","o">>,
        <<"O","P","E","R","A","C,","A~","O">>,
        <<"C","o","m","p","r","a">>,
        <<"V","e","n","d","a">>,
        <<"C","O","M","P","R","A">>,
        <<"V","E","N","D","A">>,
        <<"A","q","u","i","s","i","c,","a~","o">>,
        <<"A","Q","U","I","S","I","C,","A~","O">>,
        <<"P","U","R","C","H","A","S","E">> >>],
    [categoria |-> "Resgate", keywords |-> <<
        <<"R","e","s","g","a","t","e">>,
        <<"R","E","S","G","A","T","E">>,
        <<"R","E","D","E","M","P","T","I","O","N">> >>],
    [categoria |-> "Aplicacao", keywords |-> <<
        <<"A","p","l","i","c","a","c,","a~","o">>,
        <<"A","P","L","I","C","A","C,","A~","O">>,
        <<"A","p","l","i","c",".">> >>],
    [categoria |-> "Auditoria", keywords |-> <<
        <<"A","u","d","i","t","o","r","i","a">>,
        <<"A","U","D","I","T","O","R","I","A">>,
        <<"#","A","U","D","I","T">>,
        <<"A","U","D","I","T">> >>],
    [categoria |-> "Custodia", keywords |-> <<
        <<"C","u","s","t","o'","d","i","a">>,
        <<"C","U","S","T","O","D","I","A">>,
        <<"C","U","S","T","O","D","Y">> >>],
    [categoria |-> "Gestao", keywords |-> <<
        <<"G","e","s","t","a~","o">>,
        <<"G","E","S","T","A~","O">> >>],
    [categoria |-> "Liquidacao", keywords |-> <<
        <<"L","i","q","u","i","d","a","c,","a~","o">>,
        <<"L","I","Q","U","I","D","A","C,","A~","O">>,
        <<"L","I","Q","U","I","D","A","C","A","O">> >>],
    [categoria |-> "Outros", keywords |-> <<
         >>] >>

\* the table loop without its early return: the last category with a trigger
\* in the text wins
get_categoria_last_hit(lancamento) ==
  IF ~IsStr(lancamento) THEN "Outros"
  ELSE LET text == Upper(lancamento)
           hits == {k \in 1..Len(categoria_map) :
                      \E j \in 1..Len(categoria_map[k].keywords) :
                         Contains(Upper(categoria_map[k].keywords[j]), text)}
       IN IF hits # {}
          THEN categoria_map[CHOOSE k \in hits : \A j \in hits : j <= k].categoria
          ELSE IF \/ Contains(<<"L","I'","Q","U","I","D","O"," ","N","O"," ","D","I","A">>, text)
                  \/ Contains(<<"L","I","Q","U","I","D","O"," ","N","O"," ","D","I","A">>, text)
               THEN "Balanco Diario"
               ELSE "Outros"

\* get_categoria of _categorize_expenses
get_categoria(lancamento) ==
  IF ~IsStr(lancamento) THEN "Outros"
  ELSE LET text == Upper(lancamento)
           hits == {k \in 1..Len(categoria_map) :
                      \E j \in 1..Len(categoria_map[k].keywords) :
                         Contains(Upper(categoria_map[k].keywords[j]), text)}
       IN IF hits # {} THEN categoria_map[Least(hits)].categoria
          ELSE IF \/ Contains(<<"L","I'","Q","U","I","D","O"," ","N","O"," ","D","I","A">>, text)
                  \/ Contains(<<"L","I","Q","U","I","D","O"," ","N","O"," ","D","I","A">>, text)
               THEN "Balanco Diario"
               ELSE "Outros"

(***************************************************************************)
(* ExpenseTransformer._classify_despesas and                               *)
(* ConfigLoader.get_despesas_classifications                               *)
(***************************************************************************)
\* the list returned when despesas_classificacao.json cannot be loaded
default_despesas ==
  <<
    <<"G","r","a","f","e","n","o">>,
    <<"T","a","x","a"," ","d","e"," ","A","d","m","i","n","i","s","t","r","a","c,","a~","o">>,
    <<"A","n","b","i","m","a">>,
    <<"T","a","x","a"," ","A","n","b","i","m","a">>,
    <<"T","a","x","a"," ","d","e"," ","G","e","s","t","a~","o">>,
    <<"T","a","x","a"," ","d","e"," ","C","u","s","t","o'","d","i","a">>,
    <<"D","e","s","p","e","s","a","s">>,
    <<"A","u","d","i","t","o","r","i","a">>,
    <<"C","u","s","t","o'","d","i","a">>,
    <<"T","a","r","i","f","a"," ","B","a","n","c","a'","r","i","a">> >>


\* the classifier comparing the upper-cased entry text with the list as it is
\* configured, not upper-cased
is_despesa_list_as_configured(lancamento, despesas_list) ==
  /\ IsStr(lancamento)
  /\ \/ \E i \in 1..Len(despesas_list) : despesas_list[i] = Upper(lancamento)
     \/ \E i \in 1..Len(despesas_list) : Contains(despesas_list[i], Upper(lancamento))

\* the classifier without the scan for a phrase inside the text
is_despesa_exact_only(lancamento, despesas_list) ==
  /\ IsStr(lancamento)
  /\ \E i \in 1..Len(despesas_list) : Upper(despesas_list[i]) = Upper(lancamento)

\* is_despesa of _classify_despesas, over the list the configuration gives
is_despesa(lancamento, despesas_list) ==
  /\ IsStr(lancamento)
  /\ \/ \E i \in 1..Len(despesas_list) : Upper(despesas_list[i]) = Upper(lancamento)
     \/ \E i \in 1..Len(despesas_list) : Contains(Upper(despesas_list[i]), Upper(lancamento))

(***************************************************************************)
(* ExpenseTransformer._normalize_lancamentos                               *)
(***************************************************************************)
\* lancamentos_map is a sequence of <<key, value>> in the order of the JSON object
\* the normalization with the scan of the keys ahead of the exact lookup
normalize_lancamento_scan_first(lancamento, lancamentos_map) ==
  IF ~IsStr(lancamento) THEN lancamento
  ELSE LET text == Strip(lancamento)
           part == {k \in 1..Len(lancamentos_map) :
                      Contains(Lower(lancamentos_map[k][1]), Lower(text))}
       IN IF part # {} THEN lancamentos_map[Least(part)][2] ELSE text

normalize_lancamento(lancamento, lancamentos_map) ==
  IF ~IsStr(lancamento) THEN lancamento
  ELSE LET text == Strip(lancamento)
           exact == {k \in 1..Len(lancamentos_map) : lancamentos_map[k][1] = text}
           part == {k \in 1..Len(lancamentos_map) :
                      Contains(Lower(lancamentos_map[k][1]), Lower(text))}
       IN IF exact # {} THEN lancamentos_map[Least(exact)][2]
          ELSE IF part # {} THEN lancamentos_map[Least(part)][2]
          ELSE text

(***************************************************************************)
(* Numbers.  A float read from a statement is a decimal m * 10^(-e), kept  *)
(* exactly, or NaN.                                                        *)
(***************************************************************************)
RECURSIVE Trim(_, _)
\* the same number with no trailing zero in the fraction
Trim(m, e) ==
  IF e > 0 /\ m % 10 = 0 THEN Trim(m \div 10, e - 1)
  ELSE [nan |-> FALSE, m |-> m, e |-> e]

Zero == [nan |-> FALSE, m |-> 0, e |-> 0]

NaN == [nan |-> TRUE, m |-> 0, e |-> 0]

\* abs(x); abs(NaN) is NaN
Abs(x) == IF x.m < 0 THEN [x EXCEPT !.m = 0 - x.m] ELSE x

\* -x
Neg(x) == [x EXCEPT !.m = 0 - x.m]

\* x.notna() & (x != 0)
NotZero(x) == ~x.nan /\ x.m # 0

\* x < 0, false of NaN
Negative(x) == ~x.nan /\ x.m < 0

DigitChars == <<"0","1","2","3","4","5","6","7","8","9">>

IsDigit(c) == \E i \in 1..Len(DigitChars) : DigitChars[i] = c

DigitValue(c) == (CHOOSE i \in 1..Len(DigitChars) : DigitChars[i] = c) - 1

RECURSIVE DigitsValue(_)
DigitsValue(s) ==
  IF s = <<>> THEN 0
  ELSE DigitsValue(SubSeq(s, 1, Len(s) - 1)) * 10 + DigitValue(s[Len(s)])

\* float(s) on the characters a statement holds: blanks around, a sign, digits
\* with at most one point.  ok is false where float raises ValueError.
ParseFloat(s) ==
  LET t == Strip(s)
      signed == t # <<>> /\ t[1] \in {"-", "+"}
      body == IF signed THEN Tail(t) ELSE t
      points == {i \in 1..Len(body) : body[i] = "."}
      digits == {i \in 1..Len(body) : IsDigit(body[i])}
      wellformed == /\ digits # {}
                    /\ Cardinality(points) <= 1
                    /\ points \cup digits = 1..Len(body)
      int_part == IF points = {} THEN body
                  ELSE SubSeq(body, 1, Least(points) - 1)
      frac_part == IF points = {} THEN <<>>
                   ELSE SubSeq(body, Least(points) + 1, Len(body))
      magnitude == DigitsValue(int_part \o frac_part)
  IN IF wellformed
     THEN [ok |-> TRUE,
           val |-> Trim(IF signed /\ t[1] = "-" THEN 0 - magnitude ELSE magnitude,
                        Len(frac_part))]
     ELSE [ok |-> FALSE, val |-> NaN]

\* pd.to_numeric(s, errors='coerce')
to_numeric(s) == IF ParseFloat(s).ok THEN ParseFloat(s).val ELSE NaN

\* x.astype(str) of one cell
astype_str(x) == IF IsStr(x) THEN x ELSE NoneStr

(***************************************************************************)
(* MasterExtractor._normalize_master_data                                  *)
(***************************************************************************)
\* the parser without the sign of a parenthesised value
convert_monetary_value_unsigned(value) ==
  IF ~IsStr(value) \/ value = <<>> THEN Zero
  ELSE LET value_str == Strip(value)
           bare == Replace(Replace(value_str, <<"(">>, <<>>), <<")">>, <<>>)
           dotted == Replace(Replace(bare, <<".">>, <<>>), <<",">>, <<".">>)
           parsed == ParseFloat(dotted)
       IN IF parsed.ok THEN parsed.val ELSE Zero

\* convert_monetary_value of _normalize_master_data
convert_monetary_value(value) ==
  IF ~IsStr(value) \/ value = <<>> THEN Zero
  ELSE LET value_str == Strip(value)
           is_negative == Contains(<<"(">>, value_str) /\ Contains(<<")">>, value_str)
           bare == Replace(Replace(value_str, <<"(">>, <<>>), <<")">>, <<>>)
           dotted == Replace(Replace(bare, <<".">>, <<>>), <<",">>, <<".">>)
           parsed == ParseFloat(dotted)
       IN IF parsed.ok
          THEN (IF is_negative THEN Neg(parsed.val) ELSE parsed.val)
          ELSE Zero

\* _normalize_master_data with the credit taken first when both are there
normalize_master_row_credit_first(r) ==
  LET valor_credito == convert_monetary_value(r.credito)
      valor_debito == convert_monetary_value(r.debito)
      mask_credito == NotZero(valor_credito)
      mask_debito == NotZero(valor_debito)
  IN [nome_fundo |-> r.nome_fundo,
      lancamento |-> r.lancamento,
      valor |-> IF mask_credito THEN valor_credito
                ELSE IF mask_debito THEN Abs(valor_debito)
                ELSE Zero,
      tipo_lancamento |-> IF mask_debito /\ ~mask_credito THEN "Debito" ELSE "Credito"]

normalize_master_row(r) ==
  LET valor_credito == convert_monetary_value(r.credito)
      valor_debito == convert_monetary_value(r.debito)
      mask_credito == NotZero(valor_credito)
      mask_debito == NotZero(valor_debito)
  IN [nome_fundo |-> r.nome_fundo,
      lancamento |-> r.lancamento,
      valor |-> IF mask_debito THEN Abs(valor_debito)
                ELSE IF mask_credito THEN valor_credito
                ELSE Zero,
      tipo_lancamento |-> IF mask_debito THEN "Debito" ELSE "Credito"]

(***************************************************************************)
(* DaycovalExtractor._normalize_daycoval_data                              *)
(***************************************************************************)
daycoval_value(x) == to_numeric(Strip(Replace(astype_str(x), <<",">>, <<".">>)))

normalize_daycoval_row(r) ==
  LET valor_credito == daycoval_value(r.credito)
      valor_debito == daycoval_value(r.debito)
      mask == NotZero(valor_debito)
  IN [nome_fundo |-> r.nome_fundo,
      lancamento |-> r.lancamento,
      valor |-> Abs(IF mask THEN valor_debito
                    ELSE IF valor_credito.nan THEN Zero ELSE valor_credito),
      tipo_lancamento |-> IF mask THEN "Debito" ELSE "Credito"]

(***************************************************************************)
(* BTGExtractor._normalize_btg_data, with clean_and_normalize_dataframe    *)
(***************************************************************************)
btg_value(x) ==
  to_numeric(Strip(Replace(Replace(astype_str(x), <<"R">>, <<>>), <<",">>, <<".">>)))

normalize_btg_row(r) ==
  LET valor == btg_value(r.financeiro)
  IN [nome_fundo |-> Strip(astype_str(r.nome_fundo)),
      lancamento |-> Strip(astype_str(r.lancamento)),
      valor |-> Abs(valor),
      tipo_lancamento |-> IF ~valor.nan /\ valor.m >= 0 THEN "Credito" ELSE "Debito"]

(***************************************************************************)
(* The date column: pd.to_datetime(df['data'], format='%d/%m/%Y',          *)
(* errors='coerce') of _normalize_master_data                              *)
(***************************************************************************)
\* the days of a month
DaysIn(month, year) ==
  IF month = 2
  THEN IF year % 4 = 0 /\ (year % 100 # 0 \/ year % 400 = 0) THEN 29 ELSE 28
  ELSE IF month \in {4, 6, 9, 11} THEN 30 ELSE 31

\* a day, a month and a year written in digits
IsNumber(s) == s # <<>> /\ \A i \in 1..Len(s) : IsDigit(s[i])

\* the date <<year, month, day>> of a text day/month/year (one or two digits,
\* one or two digits, four digits); NaT, written Null, for every other value
to_datetime(x) ==
  IF ~IsStr(x) THEN Null
  ELSE LET slashes == {i \in 1..Len(x) : x[i] = "/"}
       IN IF Cardinality(slashes) # 2 THEN Null
          ELSE LET a == Least(slashes)
                   b == CHOOSE i \in slashes : i # a
                   dd == SubSeq(x, 1, a - 1)
                   mm == SubSeq(x, a + 1, b - 1)
                   yyyy == SubSeq(x, b + 1, Len(x))
               IN IF /\ IsNumber(dd) /\ Len(dd) <= 2
                     /\ IsNumber(mm) /\ Len(mm) <= 2
                     /\ IsNumber(yyyy) /\ Len(yyyy) = 4
                     /\ DigitsValue(mm) \in 1..12
                     /\ DigitsValue(yyyy) \in 1678..2261
                     /\ DigitsValue(dd) \in 1..DaysIn(DigitsValue(mm), DigitsValue(yyyy))
                  THEN <<DigitsValue(yyyy), DigitsValue(mm), DigitsValue(dd)>>
                  ELSE Null

\* the columns transform adds are absent after the extraction
ExtractedRow(n, data) ==
  [data |-> data,
   nome_fundo |-> n.nome_fundo,
   lancamento |-> n.lancamento,
   lancamento_original |-> Null,
   valor |-> n.valor,
   tipo_lancamento |-> n.tipo_lancamento,
   categoria |-> "None",
   TpFundo |-> "None",
   nmcategorizado |-> Null,
   Despesa |-> FALSE]

\* extractor.extract on a row; the date column is that of a Master statement,
\* and a statement without the column has no date (None, NaT after
\* _format_dates); the statements of BTG and Daycoval modelled have no date
\* column, and the name of a BTG file holds no date
normalize_row(cust, r) ==
  ExtractedRow(CASE cust = "Master" -> normalize_master_row(r)
                 [] cust = "Daycoval" -> normalize_daycoval_row(r)
                 [] OTHER -> normalize_btg_row(r),
               IF cust = "Master" /\ "data" \in DOMAIN r THEN to_datetime(r.data)
               ELSE Null)

(***************************************************************************)
(* ExpenseTransformer._categorize_funds                                    *)
(***************************************************************************)
normalize_string(s) ==
  IF ~IsStr(s) THEN NoneStr
  ELSE LET u == Upper(Strip(s)) IN Tuple([i \in 1..Len(u) |-> AsciiChar(u[i])])

\* the bidirectional substring test of fidc_mask on one fund name
fidc_match(fidc_name, nome_fundo) ==
  LET parent == normalize_string(fidc_name)
      name == normalize_string(nome_fundo)
  IN Contains(parent, name) \/ Contains(name, parent)

\* the rows of fidc_mask
fidc_rows(d, fidc_name) ==
  {i \in 1..Len(d) : fidc_match(fidc_name, d[i].nome_fundo)}

RECURSIVE Ascending(_)
\* fidc_rows.index.tolist(): the row labels in table order
Ascending(S) ==
  IF S = {} THEN <<>> ELSE <<Least(S)>> \o Ascending(S \ {Least(S)})

Max(a, b) == IF a >= b THEN a ELSE b

Min(a, b) == IF a <= b THEN a ELSE b

\* only the empty child list skipped, the sentinel taken for a child
skip_parent_empty_only(fics_list) == fics_list = <<>>

\* the parent is skipped before its rows are looked at (transformer.py 270)
skip_parent(fics_list) == fics_list = <<>> \/ fics_list[1] = <<"-">>

\* the kept half rounded up instead of down
keep_original_count_ceil(total_rows) == Max((total_rows + 1) \div 2, 1)

\* max(int(total_rows * 0.5), 1)
keep_original_count(total_rows) == Max(total_rows \div 2, 1)

\* max(1, rows_to_distribute // num_fics)
rows_per_fic(rows_to_distribute, num_fics) == Max(1, rows_to_distribute \div num_fics)

\* random.seed(42)
Seed == 42

\* the generator left as it is, not seeded
random_seed_skipped(st, a) == st

\* The generator: the seed it was last given and the shuffles drawn since.
random_seed(st, a) == [seed |-> a, pos |-> 0]

\* random.seed(42); random.shuffle(list(range(n))) of CPython's Mersenne
\* Twister, for n = 1..8, positions counted from 1
MersenneShuffle ==
  << <<1>>,
     <<2,1>>,
     <<2,1,3>>,
     <<3,2,4,1>>,
     <<4,2,3,5,1>>,
     <<4,2,3,5,1,6>>,
     <<2,4,5,3,7,1,6>>,
     <<4,5,7,8,3,6,1,2>> >>

\* random.shuffle(x) in generator state st.  Freshly seeded with 42 the
\* permutation is CPython's; in any other state it is some permutation that
\* the state determines, here a rotation.
random_shuffle(st, x) ==
  LET n == Len(x)
      perm == IF st = [seed |-> Seed, pos |-> 0]
              THEN MersenneShuffle[n]
              ELSE [i \in 1..n |-> ((i - 1 + st.seed + st.pos) % n) + 1]
  IN Tuple([i \in 1..n |-> x[perm[i]]])

\* the generator after one shuffle
after_shuffle(st) == [st EXCEPT !.pos = @ + 1]

\* the child (position in fics_list) that receives the q-th of the indices to
\* distribute, 0 when the loop over the children ends before reaching it
fic_of(q, per_fic, num_fics) ==
  IF (q - 1) \div per_fic < num_fics THEN ((q - 1) \div per_fic) + 1 ELSE 0

\* one iteration of the loop over fidc_to_fics.items(): the table (d) and the
\* generator (st) after it
process_parent(d, st, fidc_name, fics_list) ==
  LET rows == IF skip_parent(fics_list) THEN {} ELSE fidc_rows(d, fidc_name)
      total_rows == Cardinality(rows)
      num_fics == Len(fics_list)
      keep == keep_original_count(total_rows)
      rows_to_distribute == total_rows - keep
  IN IF skip_parent(fics_list) \/ total_rows = 0 \/ rows_to_distribute <= 0
     THEN [d |-> d, st |-> st]
     ELSE LET per_fic == rows_per_fic(rows_to_distribute, num_fics)
              seeded == random_seed(st, Seed)
              fidc_indices == random_shuffle(seeded, Ascending(rows))
              distribute_indices == SubSeq(fidc_indices, keep + 1, total_rows)
              given(i) == {q \in 1..Len(distribute_indices) :
                             distribute_indices[q] = i /\ fic_of(q, per_fic, num_fics) # 0}
          IN [d |-> [i \in 1..Len(d) |->
                       IF given(i) = {} THEN d[i]
                       ELSE LET fic == fics_list[fic_of(Least(given(i)), per_fic, num_fics)]
                            IN [d[i] EXCEPT !.nmcategorizado = fic,
                                            !.TpFundo = determine_fic_type(fic)]],
              st |-> after_shuffle(seeded)]

\* the column left as _add_required_columns created it
init_nmcategorizado_missing(row) == row

\* df['nmcategorizado'] = df['nome_fundo'], on one row (transformer.py 266)
init_nmcategorizado(row) == [row EXCEPT !.nmcategorizado = row.nome_fundo]

\* how many rows of the unique fund names the log line of transformer.py 246
\* joins
LogSample == 5

\* ', '.join(df['nome_fundo'].unique()[:5]) raises TypeError when one of the
\* first five distinct fund names is not a string
log_raises(d) ==
  \E i \in 1..Len(d) :
     /\ ~IsStr(d[i].nome_fundo)
     /\ Cardinality({d[j].nome_fundo : j \in 1..(i - 1)}) < LogSample

(***************************************************************************)
(* The inputs: fund names, entry texts, amounts and configurations.        *)
(***************************************************************************)
\* "SCI SAO CR FC FIM CP"
SCI_SAO_CR == <<"S","C","I"," ","S","A","O"," ","C","R"," ","F","C"," ","F","I","M"," ","C","P">>

\* "AROEIRA FIC FIM CP"
AROEIRA_CP == <<"A","R","O","E","I","R","A"," ","F","I","C"," ","F","I","M"," ","C","P">>

\* "SECULO FIC FIM CP"
SECULO_CP == <<"S","E","C","U","L","O"," ","F","I","C"," ","F","I","M"," ","C","P">>

\* "LION FC FIDC"
LION == <<"L","I","O","N"," ","F","C"," ","F","I","D","C">>

\* "VISHNU FUNDO"
VISHNU == <<"V","I","S","H","N","U"," ","F","U","N","D","O">>

\* "TESOURO SELIC"
TESOURO == <<"T","E","S","O","U","R","O"," ","S","E","L","I","C">>

\* "IPE (E with circumflex) FIDC"
IPE_FIDC == <<"I","P","E^"," ","F","I","D","C">>

\* "IPE (E with circumflex) II FIDC"
IPE_II_FIDC == <<"I","P","E^"," ","I","I"," ","F","I","D","C">>

\* "IPE (E with circumflex)"
IPE == <<"I","P","E^">>

\* "IPE (E with circumflex) II"
IPE_II == <<"I","P","E^"," ","I","I">>

\* "LION"
LION_PARENT == <<"L","I","O","N">>

VISHNU_PARENT == <<"V","I","S","H","N","U">>

VISHNU_HOLDING == <<"V","I","S","H","N","U"," ","H","O","L","D","I","N","G">>

\* "AROEIRA FIC FIM"
AROEIRA == <<"A","R","O","E","I","R","A"," ","F","I","C"," ","F","I","M">>

\* "SECULO FIC FIM"
SECULO == <<"S","E","C","U","L","O"," ","F","I","C"," ","F","I","M">>

\* "ATICO FC FIM CP"
ATICO == <<"A","T","I","C","O"," ","F","C"," ","F","I","M"," ","C","P">>

\* "LION FIC FIM"
LION_FIC == <<"L","I","O","N"," ","F","I","C"," ","F","I","M">>

\* "RESGATE DE COTAS"
RESGATE == <<"R","E","S","G","A","T","E"," ","D","E"," ","C","O","T","A","S">>

\* "Taxa de Administracao (c with cedilla, a with tilde)"
TAXA_ADM == <<"T","a","x","a"," ","d","e"," ","A","d","m","i","n","i","s","t","r","a","c,","a~","o">>

\* "TX ADM"
TX_ADM == <<"T","X"," ","A","D","M">>

\* "1234,56"
V_1234_56 == <<"1","2","3","4",",","5","6">>

\* "(1.234,56)"
V_PAREN == <<"(","1",".","2","3","4",",","5","6",")">>

\* "abc"
V_ABC == <<"a","b","c">>

\* "R$ 1.234,56"
V_CURRENCY == <<"R","$"," ","1",".","2","3","4",",","5","6">>

\* "0,00"
V_ZERO == <<"0",",","0","0">>

\* "-5,00"
V_MINUS == <<"-","5",",","0","0">>

\* "12649,14"
V_12649_14 == <<"1","2","6","4","9",",","1","4">>

\* one raw row of a statement
RawRow(nome, lanc, credito, debito, financeiro) ==
  [nome_fundo |-> nome, lancamento |-> lanc,
   credito |-> credito, debito |-> debito, financeiro |-> financeiro]

\* a parent of fic_fidc_mapping.json with its children
Parent(fidc, fics) == [fidc |-> fidc, fics |-> fics]

\* the sequences over S of length 1..n
SeqsUpTo(S, n) == UNION {[1..k -> S] : k \in 1..n}

\* the statements of the scenarios: each fund name with a redemption entry, and
\* the FIDC with a fee entry, written out or abbreviated
ScenarioRows ==
  {RawRow(n, RESGATE, V_12649_14, <<>>, V_12649_14) :
      n \in {SCI_SAO_CR, AROEIRA_CP, SECULO_CP, VISHNU, TESOURO, IPE_FIDC, <<>>, Null}}
  \cup {RawRow(LION, t, <<>>, V_1234_56, V_1234_56) : t \in {TAXA_ADM, TX_ADM}}

\* fidc_to_fics of the scenarios: no mapping file, the mapping of the spec's
\* scenario, a mapping whose parent matches the FIDC of scenario 2, a mapping
\* whose parent is a fund of the manual table and whose child's name holds no
\* type keyword
ScenarioMappings ==
  { <<>>,
    <<Parent(IPE, <<AROEIRA, SECULO>>)>>,
    <<Parent(LION_PARENT, <<LION_FIC>>)>>,
    <<Parent(VISHNU_PARENT, <<VISHNU_HOLDING>>)>> }

\* map_lancamentos.json with an abbreviation and despesas_classificacao.json
\* with an expense list that names no phrase
AbbreviationProfile ==
  [lancamentos_map |-> << <<TX_ADM, TAXA_ADM>> >>, despesas_list |-> <<>>]

\* the statements of the redistribution batches: a fund matched by one parent,
\* a fund matched by two parents, a fund matched by none
RedistRows ==
  {RawRow(n, RESGATE, V_12649_14, <<>>, V_12649_14) : n \in {IPE_FIDC, IPE_II_FIDC, LION}}

RedistMappings ==
  { <<Parent(IPE, <<AROEIRA, SECULO>>)>>,
    <<Parent(IPE, <<AROEIRA>>)>>,
    <<Parent(IPE, <<AROEIRA, SECULO>>), Parent(IPE_II, <<ATICO>>)>>,
    <<Parent(IPE, << <<"-">> >>), Parent(IPE_II, <<ATICO, <<"-">> >>)>>,
    <<Parent(IPE, <<>>), Parent(IPE_II, <<AROEIRA, SECULO, ATICO>>)>> }

\* states the process-global generator may be in when a run starts
RngStates == 2

\* the amounts a statement cell may hold
MoneyStrings ==
  {Null, <<>>, V_1234_56, V_PAREN, V_ABC, V_CURRENCY, V_ZERO, V_MINUS}

ExtractRows ==
  {RawRow(LION, TAXA_ADM, c, d, c) : c \in MoneyStrings, d \in MoneyStrings}

Config(mapping, profile) ==
  [fidc_to_fics |-> mapping,
   lancamentos_map |-> profile.lancamentos_map,
   despesas_list |-> profile.despesas_list]

\* an empty map_lancamentos.json, and despesas_classificacao.json absent
DefaultProfile == [lancamentos_map |-> <<>>, despesas_list |-> default_despesas]

\* the configurations of the scenarios
ScenarioConfigs ==
  {Config(m, DefaultProfile) : m \in ScenarioMappings}
    \cup {Config(<<>>, AbbreviationProfile)}

(***************************************************************************)
(* The state: the file being processed (custodiante, raw), the loaded      *)
(* configuration (cfg), the table (df), the step of process_file reached   *)
(* (pc), the parent reached by the loop of _categorize_funds (fi), the     *)
(* process-global random generator (rng), and, when the same file is       *)
(* processed a second time, the run number and the table of the first run; *)
(* and the state of process_directory (dir_vars).                          *)
(***************************************************************************)
\* process_file: one file, named on the command line, and no directory loop
\* save_to_mysql not called: no connection, nothing truncated or inserted, no
\* procedure executed
Unsaved(stale, truncate, run_procedures) ==
  [stale |-> stale, truncate |-> truncate, run_procedures |-> run_procedures,
   connected |-> FALSE, truncated |-> "no", loaded |-> <<>>, inserted |-> 0,
   procedures |-> <<>>, result |-> 0]

NoDirectory ==
  /\ files = <<>>
  /\ file_no = 0
  /\ all_dfs = <<>>
  /\ reported = {}

NoSink == sink = Unsaved(0, FALSE, FALSE)

InitCommon ==
  /\ df = <<>>
  /\ pc = "extract"
  /\ fi = 0
  /\ run = 1
  /\ first = <<>>
  /\ NoDirectory
  /\ NoSink

InitScenario ==
  /\ custodiante \in {"BTG", "Master"}
  /\ raw \in SeqsUpTo(ScenarioRows, MaxBatch)
  /\ cfg \in ScenarioConfigs
  /\ rng = [seed |-> 0, pos |-> 0]
  /\ InitCommon

InitRedist ==
  /\ custodiante = "Daycoval"
  /\ raw \in SeqsUpTo(RedistRows, MaxRows)
  /\ cfg \in {Config(m, DefaultProfile) : m \in RedistMappings}
  /\ rng \in {[seed |-> s, pos |-> 0] : s \in 0..(RngStates - 1)}
  /\ InitCommon

InitExtract ==
  /\ custodiante \in {"Master", "Daycoval", "BTG"}
  /\ raw \in SeqsUpTo(ExtractRows, MaxRawRows)
  /\ cfg = Config(<<Parent(LION_PARENT, <<LION_FIC>>)>>, DefaultProfile)
  /\ rng = [seed |-> 0, pos |-> 0]
  /\ InitCommon

\* extractor.extract(file_path) of process_file
Extract ==
  /\ pc = "extract"
  /\ df' = [i \in 1..Len(raw) |-> normalize_row(custodiante, raw[i])]
  /\ pc' = "normalize_lancamentos"
  /\ UNCHANGED <<custodiante, raw, cfg, fi, rng, run, first>>
  /\ UNCHANGED dir_vars

\* transform: lancamento_original, then _normalize_lancamentos
NormalizeLancamentos ==
  /\ pc = "normalize_lancamentos"
  /\ df' = [i \in 1..Len(df) |->
              [df[i] EXCEPT !.lancamento_original = df[i].lancamento,
                            !.lancamento = normalize_lancamento(df[i].lancamento,
                                                                cfg.lancamentos_map)]]
  /\ pc' = "add_required_columns"
  /\ UNCHANGED <<custodiante, raw, cfg, fi, rng, run, first>>
  /\ UNCHANGED dir_vars

\* _categorize_expenses left for after the redistribution: the fund steps
\* follow _format_dates directly
AddRequiredColumnsThenFunds ==
  /\ pc = "add_required_columns"
  /\ pc' = "determine_fund_type"
  /\ UNCHANGED <<custodiante, raw, cfg, df, fi, rng, run, first>>
  /\ UNCHANGED dir_vars

\* transform: _add_required_columns and _format_dates; data is a date or NaT
\* since the extraction, a missing date (None) becomes NaT, both written Null;
\* the other columns they add (None) or write (ano, mes) are not modelled
AddRequiredColumns ==
  /\ pc = "add_required_columns"
  /\ pc' = "categorize_expenses"
  /\ UNCHANGED <<custodiante, raw, cfg, df, fi, rng, run, first>>
  /\ UNCHANGED dir_vars

\* transform: _categorize_expenses
CategorizeExpenses ==
  /\ pc = "categorize_expenses"
  /\ df' = [i \in 1..Len(df) |-> [df[i] EXCEPT !.categoria = get_categoria(df[i].lancamento)]]
  /\ pc' = "determine_fund_type"
  /\ UNCHANGED <<custodiante, raw, cfg, fi, rng, run, first>>
  /\ UNCHANGED dir_vars

\* transform: df['TpFundo'] = df['nome_fundo'].apply(self._determine_fund_type)
DetermineFundType ==
  /\ pc = "determine_fund_type"
  /\ df' = [i \in 1..Len(df) |->
              [df[i] EXCEPT !.TpFundo = determine_fund_type(df[i].nome_fundo)]]
  /\ pc' = "categorize_funds"
  /\ UNCHANGED <<custodiante, raw, cfg, fi, rng, run, first>>
  /\ UNCHANGED dir_vars

\* _categorize_funds up to its loop: the log line, nmcategorizado = nome_fundo
CategorizeFundsBegin ==
  /\ pc = "categorize_funds"
  /\ IF log_raises(df)
     THEN /\ pc' = "raised"
          /\ UNCHANGED <<df, fi>>
     ELSE /\ df' = [i \in 1..Len(df) |-> init_nmcategorizado(df[i])]
          /\ fi' = 1
          /\ pc' = "categorize_funds_loop"
  /\ UNCHANGED <<custodiante, raw, cfg, rng, run, first>>
  /\ UNCHANGED dir_vars

\* one iteration of the loop over fidc_to_fics.items()
CategorizeFundsParent ==
  /\ pc = "categorize_funds_loop"
  /\ fi <= Len(cfg.fidc_to_fics)
  /\ LET p == cfg.fidc_to_fics[fi]
         after == process_parent(df, rng, p.fidc, p.fics)
     IN /\ df' = after.d
        /\ rng' = after.st
  /\ fi' = fi + 1
  /\ UNCHANGED <<custodiante, raw, cfg, pc, run, first>>
  /\ UNCHANGED dir_vars

\* the loop is over: _categorize_funds returns
CategorizeFundsEnd ==
  /\ pc = "categorize_funds_loop"
  /\ fi > Len(cfg.fidc_to_fics)
  /\ pc' = "manual_mapping"
  /\ UNCHANGED <<custodiante, raw, cfg, df, fi, rng, run, first>>
  /\ UNCHANGED dir_vars

\* transform: _apply_manual_fund_type_mapping; row['nome_fundo'].upper()
\* raises AttributeError on a name that is not a string
ApplyManualFundTypeMapping ==
  /\ pc = "manual_mapping"
  /\ IF \E i \in 1..Len(df) : df[i].TpFundo = "Outro" /\ ~IsStr(df[i].nome_fundo)
     THEN /\ pc' = "raised"
          /\ UNCHANGED df
     ELSE /\ df' = [i \in 1..Len(df) |->
                      IF df[i].TpFundo = "Outro"
                      THEN [df[i] EXCEPT !.TpFundo = manual_fund_type(df[i].nome_fundo)]
                      ELSE df[i]]
          /\ pc' = "standardize_fund_types"
  /\ UNCHANGED <<custodiante, raw, cfg, fi, rng, run, first>>
  /\ UNCHANGED dir_vars

\* transform: _standardize_fund_types
StandardizeFundTypes ==
  /\ pc = "standardize_fund_types"
  /\ df' = [i \in 1..Len(df) |->
              [df[i] EXCEPT !.TpFundo = standardize_fund_type(df[i].TpFundo)]]
  /\ pc' = "classify_despesas"
  /\ UNCHANGED <<custodiante, raw, cfg, fi, rng, run, first>>
  /\ UNCHANGED dir_vars

\* transform: _classify_despesas, and transform returns
ClassifyDespesas ==
  /\ pc = "classify_despesas"
  /\ df' = [i \in 1..Len(df) |->
              [df[i] EXCEPT !.Despesa = is_despesa(df[i].lancamento, cfg.despesas_list)]]
  /\ pc' = "done"
  /\ UNCHANGED <<custodiante, raw, cfg, fi, rng, run, first>>
  /\ UNCHANGED dir_vars

\* the same file is processed again in the same process: the table of the
\* first run is kept for comparison, the generator is left as the run left it
Rerun ==
  /\ pc = "done"
  /\ run = 1
  /\ first' = df
  /\ run' = 2
  /\ df' = <<>>
  /\ fi' = 0
  /\ pc' = "extract"
  /\ UNCHANGED <<custodiante, raw, cfg, rng>>
  /\ UNCHANGED dir_vars

Next ==
  \/ Extract
  \/ NormalizeLancamentos
  \/ AddRequiredColumns
  \/ CategorizeExpenses
  \/ DetermineFundType
  \/ CategorizeFundsBegin
  \/ CategorizeFundsParent
  \/ CategorizeFundsEnd
  \/ ApplyManualFundTypeMapping
  \/ StandardizeFundTypes
  \/ ClassifyDespesas

NextTwice == Next \/ Rerun

\* one file of scenario statements through process_file
Spec == InitScenario /\ [][Next]_vars

\* one file of parent-fund statements, processed twice by the same process
SpecRedist == InitRedist /\ [][NextTwice]_vars

\* one file of amounts through each custodian's extractor
SpecExtract == InitExtract /\ [][Next]_vars

(***************************************************************************)
(* The amount conversion of the Master and BTG extractors, step by step:   *)
(* first the money columns are converted to numbers, then valor and        *)
(* tipo_lancamento are derived and the final columns selected.             *)
(***************************************************************************)
\* rows per batch in the amount batches
MaxMoneyRows == 2

\* "1.234,56"
V_1_234_56 == <<"1",".","2","3","4",",","5","6">>

\* "R$ "
CurrencyPrefix == <<"R","$"," ">>

\* amounts in the format of the statements
NumericStrings == {V_1234_56, V_1_234_56, V_ZERO, V_MINUS, V_PAREN}

\* the values of a money column: missing, empty, not a number, an amount, an
\* amount after a currency symbol
MoneyInputs ==
  {Null, <<>>, V_ABC} \cup NumericStrings \cup {CurrencyPrefix \o x : x \in NumericStrings}

MoneyRows ==
  {RawRow(LION, RESGATE, c, d, c) : c \in MoneyInputs, d \in {<<>>, V_1234_56}}

InitMoney ==
  /\ custodiante \in {"Master", "BTG"}
  /\ raw \in SeqsUpTo(MoneyRows, MaxMoneyRows)
  /\ cfg = Config(<<>>, DefaultProfile)
  /\ rng = [seed |-> 0, pos |-> 0]
  /\ InitCommon

\* _normalize_master_data: valor_credito and valor_debito through
\* convert_monetary_value; _normalize_btg_data: valor through to_numeric
ConvertValues ==
  /\ pc = "extract"
  /\ df' = [i \in 1..Len(raw) |->
              IF custodiante = "Master"
              THEN [valor_credito |-> convert_monetary_value(raw[i].credito),
                    valor_debito |-> convert_monetary_value(raw[i].debito)]
              ELSE [valor |-> btg_value(raw[i].financeiro)]]
  /\ pc' = "converted"
  /\ UNCHANGED <<custodiante, raw, cfg, fi, rng, run, first>>
  /\ UNCHANGED dir_vars

\* the rest of the normalization: valor, tipo_lancamento, the final columns
DeriveValor ==
  /\ pc = "converted"
  /\ df' = [i \in 1..Len(raw) |-> normalize_row(custodiante, raw[i])]
  /\ pc' = "extracted"
  /\ UNCHANGED <<custodiante, raw, cfg, fi, rng, run, first>>
  /\ UNCHANGED dir_vars

NextMoney == ConvertValues \/ DeriveValor

SpecMoney == InitMoney /\ [][NextMoney]_vars

(***************************************************************************)
(* The entry texts: one fund, entry texts that exercise the normalization  *)
(* map, the category table and the expense list.                           *)
(***************************************************************************)
\* rows per batch in the entry-text batches
MaxTextRows == 1

\* "ADM"
K_ADM == <<"A","D","M">>

\* "Administração"
ADMINISTRACAO == <<"A","d","m","i","n","i","s","t","r","a","c,","a~","o">>

\* "tx adm fidc"
TX_ADM_FIDC == <<"t","x"," ","a","d","m"," ","f","i","d","c">>

\* " TX ADM "
TX_ADM_PADDED == <<" ","T","X"," ","A","D","M"," ">>

\* "RESGATE DE COTAS "
RESGATE_PADDED == <<"R","E","S","G","A","T","E"," ","D","E"," ","C","O","T","A","S"," ">>

\* "CUSTO SELIC"
CUSTO_SELIC == <<"C","U","S","T","O"," ","S","E","L","I","C">>

\* "Pgto Custódia"
PGTO_CUSTODIA == <<"P","g","t","o"," ","C","u","s","t","o'","d","i","a">>

\* "TED 123"
TED_TEXT == <<"T","E","D"," ","1","2","3">>

\* "Saldo anterior"
SALDO == <<"S","a","l","d","o"," ","a","n","t","e","r","i","o","r">>

\* "custodia fundo"
CUSTODIA_PLAIN == <<"c","u","s","t","o","d","i","a"," ","f","u","n","d","o">>

\* "Taxa de Custódia"
TAXA_CUSTODIA == <<"T","a","x","a"," ","d","e"," ","C","u","s","t","o'","d","i","a">>

\* "VALOR LÍQUIDO NO DIA"
LIQUIDO_ACCENT == <<"V","A","L","O","R"," ","L","I'","Q","U","I","D","O"," ","N","O"," ","D","I","A">>

\* "liquido no dia"
LIQUIDO_PLAIN == <<"l","i","q","u","i","d","o"," ","n","o"," ","d","i","a">>

\* "TAXA LÍQUIDO NO DIA"
TAXA_LIQUIDO == <<"T","A","X","A"," ","L","I'","Q","U","I","D","O"," ","N","O"," ","D","I","A">>

\* "TED LIQUIDO NO DIA"
TED_LIQUIDO == <<"T","E","D"," ","L","I","Q","U","I","D","O"," ","N","O"," ","D","I","A">>

\* "taxa de administração fidc"
TAXA_ADM_FIDC == <<"t","a","x","a"," ","d","e"," ","a","d","m","i","n","i","s","t","r","a","c,","a~","o"," ","f","i","d","c">>

\* "Grafeno"
GRAFENO == <<"G","r","a","f","e","n","o">>

\* "Taxa"
TAXA == <<"T","a","x","a">>

TextInputs ==
  {Null, <<>>, RESGATE, RESGATE_PADDED, TAXA_ADM, TX_ADM, TX_ADM_FIDC, TX_ADM_PADDED,
   CUSTO_SELIC, PGTO_CUSTODIA, TED_TEXT, SALDO, CUSTODIA_PLAIN, TAXA_CUSTODIA,
   LIQUIDO_ACCENT, LIQUIDO_PLAIN, TAXA_LIQUIDO, TED_LIQUIDO, TAXA_ADM_FIDC, GRAFENO, TAXA}

TextRows == {RawRow(LION, t, V_12649_14, <<>>, V_12649_14) : t \in TextInputs}

\* the statements that hold the same entry twice
RepeatedEntries == {<<r, r>> : r \in TextRows}

\* map_lancamentos.json with a short key ahead of a longer key that holds it
OrderProfile ==
  [lancamentos_map |-> << <<K_ADM, ADMINISTRACAO>>, <<TX_ADM, TAXA_ADM>> >>,
   despesas_list |-> default_despesas]

TextConfigs ==
  {Config(<<Parent(LION_PARENT, <<LION_FIC>>)>>, p) :
     p \in {DefaultProfile, OrderProfile, AbbreviationProfile}}

InitText ==
  /\ custodiante = "Master"
  /\ raw \in SeqsUpTo(TextRows, MaxTextRows) \cup RepeatedEntries
  /\ cfg \in TextConfigs
  /\ rng = [seed |-> 0, pos |-> 0]
  /\ InitCommon

SpecText == InitText /\ [][Next]_vars

(***************************************************************************)
(* _standardize_fund_types on a table of any labels, applied a second time *)
(* to its own result.                                                      *)
(***************************************************************************)
\* rows per table in the label tables
MaxLabelRows == 2

\* the values of TpFundo: the keys of type_mapping and labels outside it
Labels ==
  {type_mapping[k][1] : k \in 1..Len(type_mapping)} \cup {"Outro", "FIC FIDC", "None"}

LabelRows ==
  {[ExtractedRow([nome_fundo |-> LION, lancamento |-> RESGATE, valor |-> Zero,
                  tipo_lancamento |-> "Credito"], Null) EXCEPT !.TpFundo = x] : x \in Labels}

\* raw keeps the table as it was handed to _standardize_fund_types
InitLabels ==
  /\ custodiante = "Master"
  /\ raw \in SeqsUpTo(LabelRows, MaxLabelRows)
  /\ df = raw
  /\ cfg = Config(<<>>, DefaultProfile)
  /\ rng = [seed |-> 0, pos |-> 0]
  /\ pc = "standardize_fund_types"
  /\ fi = 0
  /\ run = 1
  /\ first = <<>>
  /\ NoDirectory
  /\ NoSink

\* _standardize_fund_types applied to its own result; the table of the first
\* pass is kept for comparison
StandardizeAgain ==
  /\ pc = "classify_despesas"
  /\ run = 1
  /\ first' = df
  /\ df' = [i \in 1..Len(df) |->
              [df[i] EXCEPT !.TpFundo = standardize_fund_type(df[i].TpFundo)]]
  /\ run' = 2
  /\ UNCHANGED <<custodiante, raw, cfg, pc, fi, rng>>
  /\ UNCHANGED dir_vars

NextLabels == StandardizeFundTypes \/ StandardizeAgain

SpecLabels == InitLabels /\ [][NextLabels]_vars

(***************************************************************************)
(* _categorize_funds run a second time on the table it returned.           *)
(***************************************************************************)
InitAgain ==
  /\ custodiante = "Daycoval"
  /\ raw \in SeqsUpTo(RedistRows, MaxRows)
  /\ cfg \in {Config(m, DefaultProfile) : m \in RedistMappings}
  /\ rng = [seed |-> 0, pos |-> 0]
  /\ InitCommon

\* _categorize_funds is called again on its own result; the table of the first
\* call is kept for comparison
CategorizeFundsAgain ==
  /\ pc = "manual_mapping"
  /\ run = 1
  /\ first' = df
  /\ run' = 2
  /\ pc' = "categorize_funds"
  /\ UNCHANGED <<custodiante, raw, cfg, df, fi, rng>>
  /\ UNCHANGED dir_vars

NextAgain == Next \/ CategorizeFundsAgain

SpecAgain == InitAgain /\ [][NextAgain]_vars

RECURSIVE categorize_funds_loop(_, _, _, _)
\* the loop of _categorize_funds from the k-th parent on
categorize_funds_loop(d, st, mapping, k) ==
  IF k > Len(mapping) THEN d
  ELSE LET after == process_parent(d, st, mapping[k].fidc, mapping[k].fics)
       IN categorize_funds_loop(after.d, after.st, mapping, k + 1)

\* _categorize_funds as a function of the table and the mapping
categorize_funds(d, mapping) ==
  categorize_funds_loop([i \in 1..Len(d) |-> init_nmcategorizado(d[i])],
                        [seed |-> 0, pos |-> 0], mapping, 1)

\* the table transform hands to _categorize_funds for a statement
typed_table(cust, rows) ==
  [i \in 1..Len(rows) |->
     LET row == normalize_row(cust, rows[i])
     IN [row EXCEPT !.TpFundo = determine_fund_type(row.nome_fundo)]]

(***************************************************************************)
(* DataFrameNormalizer: the steps of process_file and of process_directory  *)
(* on the table transform returned.                                        *)
(***************************************************************************)
\* normalize_columns: every column name stripped and lower-cased, its blanks
\* made underscores, its other characters removed: TpFundo and Despesa change
normalize_columns(d) ==
  [i \in 1..Len(d) |->
     [data |-> d[i].data,
      nome_fundo |-> d[i].nome_fundo,
      lancamento |-> d[i].lancamento,
      lancamento_original |-> d[i].lancamento_original,
      valor |-> d[i].valor,
      tipo_lancamento |-> d[i].tipo_lancamento,
      categoria |-> d[i].categoria,
      tpfundo |-> d[i].TpFundo,
      nmcategorizado |-> d[i].nmcategorizado,
      despesa |-> d[i].Despesa]]

\* the columns of the default subset that the table has
dedup_subset(d) ==
  {c \in {"data", "nome_fundo", "lancamento", "valor"} :
     \A i \in 1..Len(d) : c \in DOMAIN d[i]}

\* the values of a row in the columns of the subset; drop_duplicates takes
\* two missing values (NaT, None, NaN) of a column as equal
dedup_key(row, subset) == [c \in subset |-> row[c]]

\* drop_duplicates(subset=subset), keep='first': the last of two rows with the
\* same key is removed
drop_duplicates_keep_last(d, subset) ==
  LET kept == {i \in 1..Len(d) :
                 \A j \in (i + 1)..Len(d) :
                    dedup_key(d[j], subset) # dedup_key(d[i], subset)}
      index == Ascending(kept)
  IN [i \in 1..Len(index) |-> d[index[i]]]

\* drop_duplicates(subset=subset), keep='first' by default
drop_duplicates(d, subset) ==
  LET kept == {i \in 1..Len(d) :
                 \A j \in 1..(i - 1) :
                    dedup_key(d[j], subset) # dedup_key(d[i], subset)}
      index == Ascending(kept)
  IN [i \in 1..Len(index) |-> d[index[i]]]

remove_duplicates(d) ==
  IF dedup_subset(d) = {} THEN d ELSE drop_duplicates(d, dedup_subset(d))

\* fill_missing_values on one row, then df['custodiante']: a missing number
\* becomes 0, a missing date stays; a missing text becomes '' where
\* is_string_dtype holds of a column of dtype object (strings)
fill_missing_values(row, strings, cust) ==
  LET text(x) == IF strings /\ ~IsStr(x) THEN <<>> ELSE x
  IN [data |-> row.data,
      nome_fundo |-> text(row.nome_fundo),
      lancamento |-> text(row.lancamento),
      lancamento_original |-> text(row.lancamento_original),
      valor |-> IF row.valor.nan THEN Zero ELSE row.valor,
      tipo_lancamento |-> row.tipo_lancamento,
      categoria |-> row.categoria,
      tpfundo |-> row.tpfundo,
      nmcategorizado |-> text(row.nmcategorizado),
      despesa |-> row.despesa,
      custodiante |-> cust]

NormalizeColumns ==
  /\ pc = "done"
  /\ df' = normalize_columns(df)
  /\ pc' = "remove_duplicates"
  /\ UNCHANGED <<custodiante, raw, cfg, fi, rng, run, first, dir_vars>>

RemoveDuplicates ==
  /\ pc = "remove_duplicates"
  /\ df' = remove_duplicates(df)
  /\ pc' = "fill_missing_values"
  /\ UNCHANGED <<custodiante, raw, cfg, fi, rng, run, first, dir_vars>>

\* is_string_dtype of a column of dtype object that holds a missing value
\* depends on the pandas installed (setup.py asks for pandas >= 1.3.0)
FillMissingValues ==
  /\ pc = "fill_missing_values"
  /\ \E strings \in BOOLEAN :
        df' = [i \in 1..Len(df) |-> fill_missing_values(df[i], strings, custodiante)]
  /\ pc' = "normalized"
  /\ UNCHANGED <<custodiante, raw, cfg, fi, rng, run, first, dir_vars>>

\* process_file up to the table it hands to the loader
NextFile == Next \/ NormalizeColumns \/ RemoveDuplicates \/ FillMissingValues

(***************************************************************************)
(* process_file on statements that hold the same record more than once.    *)
(***************************************************************************)
\* rows per statement in the statements with repeated records
MaxDedupRows == 3

\* "01/03/2024"
D_01_03_2024 == <<"0","1","/","0","3","/","2","0","2","4">>

\* a row of a statement with a date column
DatedRow(data, nome, lanc, credito, debito) ==
  [data |-> data, nome_fundo |-> nome, lancamento |-> lanc,
   credito |-> credito, debito |-> debito, financeiro |-> credito]

\* "1/3/2024"
D_1_3_2024 == <<"1","/","3","/","2","0","2","4">>

\* a record, the same record written another way (date without the zeros,
\* abbreviated entry, amount with the thousands separator), and records that
\* differ from it in the entry, in the amount, in the fund, and in the date: no
\* date at all, or a text that is no date
DedupRows ==
  {DatedRow(D_01_03_2024, LION, TAXA_ADM, V_1234_56, <<>>),
   DatedRow(D_1_3_2024, LION, TX_ADM, V_1_234_56, <<>>),
   DatedRow(D_01_03_2024, LION, RESGATE, V_1234_56, <<>>),
   DatedRow(D_01_03_2024, LION, TAXA_ADM, V_ZERO, <<>>),
   DatedRow(D_01_03_2024, VISHNU, TAXA_ADM, V_1234_56, <<>>),
   DatedRow(<<>>, LION, TAXA_ADM, V_1234_56, <<>>),
   DatedRow(V_ABC, LION, TAXA_ADM, V_1234_56, <<>>)}

InitDedup ==
  /\ custodiante = "Master"
  /\ raw \in SeqsUpTo(DedupRows, MaxDedupRows)
  /\ cfg = Config(<<Parent(LION_PARENT, <<LION_FIC>>)>>, AbbreviationProfile)
  /\ rng = [seed |-> 0, pos |-> 0]
  /\ InitCommon

SpecDedup == InitDedup /\ [][NextFile]_vars

(***************************************************************************)
(* process_directory: the files of a directory, one after the other        *)
(* through the steps of process_file, and the consolidated table.          *)
(***************************************************************************)
\* files per directory
MaxFiles == 2

\* a file of the directory: the custodian detect_custodiante reads in its
\* name, whether its name ends in .xlsx or .xls, and its statement
File(cust, excel) ==
  [custodiante |-> cust, excel |-> excel,
   rows |-> <<DatedRow(D_01_03_2024, LION, TAXA_ADM, V_1234_56, <<>>),
              DatedRow(D_01_03_2024, LION, TAXA_ADM, V_1234_56, <<>>)>>]

DirectoryFiles ==
  {File("Master", FALSE), File("Daycoval", FALSE), File("BTG", FALSE), File("BTG", TRUE)}

\* the configuration directory: whether map_files.json is there and the
\* custodians it lists, whether fic_fidc_mapping.json and map_lancamentos.json
\* are there; load_fic_fidc_mapping gives {} for a mapping file it cannot load
DirectoryConfig(has_map_files, custodiantes, has_fic_fidc_mapping, has_map_lancamentos) ==
  [has_map_files |-> has_map_files,
   custodiantes |-> custodiantes,
   has_fic_fidc_mapping |-> has_fic_fidc_mapping,
   has_map_lancamentos |-> has_map_lancamentos,
   fidc_to_fics |-> IF has_fic_fidc_mapping THEN <<Parent(LION_PARENT, <<LION_FIC>>)>>
                    ELSE <<>>,
   lancamentos_map |-> <<>>,
   despesas_list |-> default_despesas]

DirectoryConfigs ==
  {DirectoryConfig(TRUE, c, m, TRUE) :
     c \in {{"Master", "BTG", "Daycoval"}, {"BTG"}, {"Master"}},
     m \in BOOLEAN}
    \cup {DirectoryConfig(FALSE, {}, m, TRUE) : m \in BOOLEAN}
    \cup {DirectoryConfig(TRUE, {"Master", "BTG", "Daycoval"}, TRUE, FALSE)}

\* the extractor of a file raises before it reads the file, whenever the
\* custodian is not listed in map_files.json
extractor_raises_when_unlisted(config, f) ==
  ~config.has_map_files \/ f.custodiante \notin config.custodiantes

\* the extractor of a file raises before it reads the file: its constructor
\* when map_files.json is absent (get_config raises); extract of Daycoval, and
\* of BTG on an Excel file, on self.config.get when the custodian is not
\* listed (self.config is None)
extractor_raises(config, f) ==
  \/ ~config.has_map_files
  \/ /\ f.custodiante \notin config.custodiantes
     /\ \/ f.custodiante = "Daycoval"
        \/ f.custodiante = "BTG" /\ f.excel

RECURSIVE concat(_)
\* pd.concat(all_dfs, ignore_index=True)
concat(tables) ==
  IF tables = <<>> THEN <<>> ELSE Head(tables) \o concat(Tail(tables))

InitDirectory ==
  /\ files \in SeqsUpTo(DirectoryFiles, MaxFiles)
  /\ cfg \in DirectoryConfigs
  /\ file_no = 0
  /\ all_dfs = <<>>
  /\ reported = {}
  /\ custodiante = "None"
  /\ raw = <<>>
  /\ df = <<>>
  /\ pc = "initialize"
  /\ fi = 0
  /\ rng = [seed |-> 0, pos |-> 0]
  /\ run = 1
  /\ first = <<>>
  /\ NoSink

\* the components are made before the loop: ExpenseTransformer.__init__ reads
\* map_lancamentos.json and raises when it is absent
Initialize ==
  /\ pc = "initialize"
  /\ pc' = IF cfg.has_map_lancamentos THEN "next_file" ELSE "aborted"
  /\ file_no' = 1
  /\ UNCHANGED <<custodiante, raw, cfg, df, fi, rng, run, first, files, all_dfs, reported, sink>>

\* an iteration of the loop up to the reading of the file: the custodian is
\* detected, the extractor made, and extract reads self.config
BeginFile ==
  /\ pc = "next_file"
  /\ file_no <= Len(files)
  /\ custodiante' = files[file_no].custodiante
  /\ raw' = files[file_no].rows
  /\ df' = <<>>
  /\ fi' = 0
  /\ pc' = IF extractor_raises(cfg, files[file_no]) THEN "raised" ELSE "extract"
  /\ UNCHANGED <<cfg, rng, run, first, dir_vars>>

\* the end of an iteration: all_dfs.append(df)
AppendFile ==
  /\ pc = "normalized"
  /\ file_no >= 1
  /\ all_dfs' = Append(all_dfs, df)
  /\ file_no' = file_no + 1
  /\ pc' = "next_file"
  /\ UNCHANGED <<custodiante, raw, cfg, df, fi, rng, run, first, files, reported, sink>>

\* except Exception: the error of the file is logged and echoed, and the loop
\* goes on
ReportFile ==
  /\ pc = "raised"
  /\ file_no >= 1
  /\ reported' = reported \cup {file_no}
  /\ file_no' = file_no + 1
  /\ pc' = "next_file"
  /\ UNCHANGED <<custodiante, raw, cfg, df, fi, rng, run, first, files, all_dfs, sink>>

\* after the loop: nothing to save when no file gave a table, else the tables
\* are concatenated
Consolidate ==
  /\ pc = "next_file"
  /\ file_no > Len(files)
  /\ IF all_dfs = <<>>
     THEN /\ pc' = "nothing_processed"
          /\ UNCHANGED df
     ELSE /\ df' = concat(all_dfs)
          /\ pc' = "consolidated"
  /\ UNCHANGED <<custodiante, raw, cfg, fi, rng, run, first, dir_vars>>

NextDirectory ==
  \/ Initialize
  \/ BeginFile
  \/ NextFile
  \/ AppendFile
  \/ ReportFile
  \/ Consolidate

SpecDirectory == InitDirectory /\ [][NextDirectory]_vars

(***************************************************************************)
(* DataLoader.save_to_mysql on the table of a run, call by call on the     *)
(* MySQLLoader; every call on the database may succeed or fail.            *)
(***************************************************************************)
\* rows of the table to save, and rows the destination table holds before
MaxSinkRows == 2

\* a row of the table process_file hands to the loader
SinkRows ==
  {ExtractedRow(normalize_master_row(RawRow(LION, TAXA_ADM, <<>>, V_1234_56, V_1234_56)),
                Null)}

InitSink ==
  /\ df \in {<<>>} \cup SeqsUpTo(SinkRows, MaxSinkRows)
  /\ sink \in {Unsaved(stale, truncate, run_procedures) :
                 stale \in 0..MaxSinkRows, truncate \in BOOLEAN,
                 run_procedures \in BOOLEAN}
  /\ pc = "save_to_mysql"
  /\ custodiante = "Master"
  /\ raw = <<>>
  /\ cfg = Config(<<>>, DefaultProfile)
  /\ fi = 0
  /\ rng = [seed |-> 0, pos |-> 0]
  /\ run = 1
  /\ first = <<>>
  /\ NoDirectory

\* the result of truncate_table is not looked at (loader.py 260-261)
after_truncate(ok) == "insert"

\* save_to_mysql: an empty table is not saved
SaveToMysql ==
  /\ pc = "save_to_mysql"
  /\ pc' = IF df = <<>> THEN "saved" ELSE "connect"
  /\ UNCHANGED <<custodiante, raw, cfg, df, fi, rng, run, first, dir_vars>>

\* mysql_loader.connect(): False ends the call with 0
Connect ==
  /\ pc = "connect"
  /\ \E ok \in BOOLEAN :
        /\ sink' = [sink EXCEPT !.connected = ok]
        /\ pc' = IF ok THEN "create_table" ELSE "saved"
  /\ UNCHANGED <<custodiante, raw, cfg, df, fi, rng, run, first,
                 files, file_no, all_dfs, reported>>

\* mysql_loader.create_table_if_not_exists(): False disconnects and ends the
\* call with 0; then truncate_table is called if truncate was asked for
CreateTable ==
  /\ pc = "create_table"
  /\ \E ok \in BOOLEAN :
        IF ok
        THEN /\ pc' = IF sink.truncate THEN "truncate" ELSE "insert"
             /\ UNCHANGED sink
        ELSE /\ pc' = "saved"
             /\ sink' = [sink EXCEPT !.connected = FALSE]
  /\ UNCHANGED <<custodiante, raw, cfg, df, fi, rng, run, first,
                 files, file_no, all_dfs, reported>>

\* mysql_loader.truncate_table(table_name): TRUNCATE TABLE empties the table,
\* or raises a mysql Error that is logged and answered with False
TruncateTable ==
  /\ pc = "truncate"
  /\ \E ok \in BOOLEAN :
        /\ sink' = IF ok THEN [sink EXCEPT !.stale = 0, !.truncated = "ok"]
                         ELSE [sink EXCEPT !.truncated = "failed"]
        /\ pc' = after_truncate(ok)
  /\ UNCHANGED <<custodiante, raw, cfg, df, fi, rng, run, first,
                 files, file_no, all_dfs, reported>>

\* mysql_loader.insert_dataframe: executemany and commit, rowcount rows
\* inserted; or an error, a rollback and 0.  The procedures follow when rows
\* were inserted and run_procedures is set.
InsertDataframe ==
  /\ pc = "insert"
  /\ \E ok \in BOOLEAN :
        LET inserted == IF ok THEN Len(df) ELSE 0
        IN /\ sink' = [sink EXCEPT !.loaded = IF ok THEN df ELSE <<>>,
                                   !.inserted = inserted]
           /\ pc' = IF inserted > 0 /\ sink.run_procedures
                    THEN "procedures" ELSE "disconnect"
  /\ UNCHANGED <<custodiante, raw, cfg, df, fi, rng, run, first,
                 files, file_no, all_dfs, reported>>

\* the two execute_procedure calls: each is executed, or fails with a mysql
\* Error that is logged and answered with False
ExecuteProcedures ==
  /\ pc = "procedures"
  /\ \E ok1 \in BOOLEAN, ok2 \in BOOLEAN :
        sink' = [sink EXCEPT !.procedures =
                   << [call |-> "padronizar_nmcategorizado_despesas", ok |-> ok1],
                      [call |-> "padronizar_nmfundo_despesas", ok |-> ok2] >>]
  /\ pc' = "disconnect"
  /\ UNCHANGED <<custodiante, raw, cfg, df, fi, rng, run, first,
                 files, file_no, all_dfs, reported>>

\* mysql_loader.disconnect(), and save_to_mysql returns inserted
Disconnect ==
  /\ pc = "disconnect"
  /\ sink' = [sink EXCEPT !.connected = FALSE, !.result = sink.inserted]
  /\ pc' = "saved"
  /\ UNCHANGED <<custodiante, raw, cfg, df, fi, rng, run, first,
                 files, file_no, all_dfs, reported>>

NextSink ==
  \/ SaveToMysql
  \/ Connect
  \/ CreateTable
  \/ TruncateTable
  \/ InsertDataframe
  \/ ExecuteProcedures
  \/ Disconnect

SpecSink == InitSink /\ [][NextSink]_vars

(***************************************************************************)
(* The properties.                                                         *)
(***************************************************************************)
\* the parent the loop of _categorize_funds has just processed
JustProcessed == cfg.fidc_to_fics[fi - 1]

\* the rows of a set that are still under their own fund name
KeptOwnName(rows) == {i \in rows : df[i].nmcategorizado = df[i].nome_fundo}

\* the rows of a set that are under the name of a child of the parent
UnderChildOf(p, rows) ==
  {i \in rows : /\ df[i].nmcategorizado # df[i].nome_fundo
                /\ \E c \in 1..Len(p.fics) : p.fics[c] = df[i].nmcategorizado}

\* transform has gone past _categorize_funds
Redistributed ==
  pc \in {"manual_mapping", "standardize_fund_types", "classify_despesas", "done"}

\* C1: right after the loop of _categorize_funds has processed a parent with a
\* usable child list and N >= 1 matched rows, at least ceil(N / 2) of those
\* rows are still under their own fund name.
C1_MinimumRetention ==
  (pc = "categorize_funds_loop" /\ fi > 1 /\ ~skip_parent(JustProcessed.fics)) =>
     LET rows == fidc_rows(df, JustProcessed.fidc)
     IN 2 * Cardinality(KeptOwnName(rows)) >= Cardinality(rows)

\* C2: once _categorize_funds has returned, the table has as many rows as the
\* statement, and for every parent with a usable child list the matched rows
\* still under their own name plus the matched rows under one of its children's
\* names are all of its matched rows.
C2_Conservation ==
  Redistributed =>
     /\ Len(df) = Len(raw)
     /\ \A k \in 1..Len(cfg.fidc_to_fics) :
          LET p == cfg.fidc_to_fics[k]
              rows == fidc_rows(df, p.fidc)
          IN ~skip_parent(p.fics) =>
               Cardinality(KeptOwnName(rows)) + Cardinality(UnderChildOf(p, rows))
                 = Cardinality(rows)

\* C3: the second run over the same statement gives every row the categorized
\* name and the fund type the first run gave it, whatever state the generator
\* was in when each run started.
C3_Determinism ==
  (pc = "done" /\ run = 2) =>
     /\ Len(df) = Len(first)
     /\ \A i \in 1..Len(df) :
          /\ df[i].nmcategorizado = first[i].nmcategorizado
          /\ df[i].TpFundo = first[i].TpFundo

\* C3 witness: a second run has ended in which two parents, one after the
\* other, each gave a row to a child.
C3_Witness ==
  /\ pc = "done"
  /\ run = 2
  /\ \E i, j \in 1..Len(df) :
        /\ df[i].nmcategorizado \in {AROEIRA, SECULO}
        /\ df[j].nmcategorizado = ATICO

\* C4: the fund type of "SCI SAO CR FC FIM CP" is 'FICFIM CP', as
\* _determine_fund_type returns it and as TpFundo at the end of transform.
C4_SciSaoCrIsFicfimCp ==
  \A i \in 1..Len(df) :
     (df[i].nome_fundo = SCI_SAO_CR /\ pc \in {"categorize_funds", "done"}) =>
        df[i].TpFundo = "FICFIM CP"

\* the statement and the mapping of the spec's end-to-end scenario 1
Scenario1 ==
  /\ Len(raw) = 2
  /\ raw[1].nome_fundo = AROEIRA_CP
  /\ raw[2].nome_fundo = SECULO_CP
  /\ cfg.fidc_to_fics = <<Parent(IPE, <<AROEIRA, SECULO>>)>>

\* C5: in scenario 1, after the redistribution, each row's categorized name is
\* its child name.
C5_Scenario1ChildNames ==
  (Scenario1 /\ Redistributed) =>
     /\ df[1].nmcategorizado = AROEIRA
     /\ df[2].nmcategorizado = SECULO

\* C6: in scenario 1, at the end of transform, the fund type of each row is
\* FICFIM.
C6_Scenario1FundType ==
  (Scenario1 /\ pc = "done") =>
     /\ df[1].TpFundo = "FICFIM"
     /\ df[2].TpFundo = "FICFIM"

\* C6 witness: scenario 1 has gone through transform.
C6_Witness == Scenario1 /\ pc = "done" /\ df[1].TpFundo = "FICFIM"

\* row i is the statement row of the spec's end-to-end scenario 2: the expense
\* list holds the phrase and no parent matches the fund
Scenario2(i) ==
  /\ raw[i].nome_fundo = LION
  /\ raw[i].lancamento = TAXA_ADM
  /\ \E k \in 1..Len(cfg.despesas_list) : cfg.despesas_list[k] = TAXA_ADM
  /\ \A k \in 1..Len(cfg.fidc_to_fics) : ~fidc_match(cfg.fidc_to_fics[k].fidc, LION)

\* C7: the row of scenario 2 leaves transform with fund type FIDC, category
\* Taxa and the expense flag set; and a row typed FIDC by its name that was not
\* given to a child leaves transform with type FIDC.
C7_Scenario2 ==
  pc = "done" =>
     \A i \in 1..Len(df) :
        /\ Scenario2(i) =>
             /\ df[i].TpFundo = "FIDC"
             /\ df[i].categoria = "Taxa"
             /\ df[i].Despesa
        /\ (/\ determine_fund_type(df[i].nome_fundo) = "FIDC"
            /\ df[i].nmcategorizado = df[i].nome_fundo) => df[i].TpFundo = "FIDC"

\* C7 witness: the row of scenario 2 has gone through transform, beside a FIDC
\* row of a matched parent that kept its name.
C7_Witness ==
  /\ pc = "done"
  /\ \E i \in 1..Len(df) : Scenario2(i) /\ df[i].Despesa
  /\ \E i \in 1..Len(df), k \in 1..Len(cfg.fidc_to_fics) :
        /\ fidc_match(cfg.fidc_to_fics[k].fidc, df[i].nome_fundo)
        /\ df[i].nmcategorizado = df[i].nome_fundo
        /\ df[i].TpFundo = "FIDC"

\* C8: every row a custodian normalization produces has valor >= 0.
C8_AmountNonNegative ==
  pc # "extract" => \A i \in 1..Len(df) : ~Negative(df[i].valor)

\* the names in the child lists of the mapping
ChildNames ==
  UNION {{cfg.fidc_to_fics[k].fics[c] : c \in 1..Len(cfg.fidc_to_fics[k].fics)} :
           k \in 1..Len(cfg.fidc_to_fics)}

\* C9: at the end of transform every row's nmcategorizado is a string, and is
\* the row's own fund name or a name of some parent's child list.
C9_CategorizedNameMembership ==
  pc = "done" =>
     \A i \in 1..Len(df) :
        /\ IsStr(df[i].nmcategorizado)
        /\ \/ df[i].nmcategorizado = df[i].nome_fundo
           \/ df[i].nmcategorizado \in ChildNames

\* C9 witness: transform has ended with a row under a child's name beside a row
\* under its own.
C9_Witness ==
  /\ pc = "done"
  /\ \E i, j \in 1..Len(df) :
        /\ df[i].nmcategorizado # df[i].nome_fundo
        /\ df[j].nmcategorizado = df[j].nome_fundo

\* the fund types a row may leave transform with
FundTypes ==
  {"FIDC", "FICFIDC", "FICFIM", "FICFIM CP", "FIM", "FIC", "FIM CP", "FIA", "FICFIA", "Outro"}

Amount(m, e) == [nan |-> FALSE, m |-> m, e |-> e]

\* the values of a money column the parsing contract names
ParsingCases == {V_PAREN, V_1_234_56, V_1234_56, Null, <<>>, V_ABC}

\* what the parser is to return for a value of a money column
ExpectedAmount(value) ==
  CASE value = V_PAREN -> Amount(-123456, 2)
    [] value = V_1_234_56 -> Amount(123456, 2)
    [] value = V_1234_56 -> Amount(123456, 2)
    [] value \in {Null, <<>>, V_ABC} -> Zero

\* C11: convert_monetary_value gives -1234.56 for "(1.234,56)", 1234.56 for
\* "1.234,56" and "1234,56", 0.0 for an empty or missing value, and 0.0 for
\* "abc"; the conversion of the batch ends without raising.
C11_MonetaryParsing ==
  (custodiante = "Master" /\ pc = "converted") =>
     /\ Len(df) = Len(raw)
     /\ \A i \in 1..Len(raw) :
          /\ raw[i].credito \in ParsingCases
               => df[i].valor_credito = ExpectedAmount(raw[i].credito)
          /\ df[i].valor_debito = ExpectedAmount(raw[i].debito)

\* C11 witness: a Master batch has been converted that holds a parenthesised
\* amount and a text that is not a number.
C11_Witness ==
  /\ custodiante = "Master"
  /\ pc = "converted"
  /\ \E i, j \in 1..Len(raw) :
        /\ raw[i].credito = V_PAREN /\ df[i].valor_credito = Amount(-123456, 2)
        /\ raw[j].credito = V_ABC /\ df[j].valor_credito = Zero

\* C12: parsing an amount written after a currency symbol gives the amount
\* parsed without the symbol, in the Master parser and in the BTG conversion.
C12_CurrencyPrefixStripped ==
  pc = "converted" =>
     \A i, j \in 1..Len(raw) :
        (/\ raw[i].credito \in NumericStrings
         /\ raw[j].credito = CurrencyPrefix \o raw[i].credito) =>
           IF custodiante = "Master"
           THEN df[j].valor_credito = df[i].valor_credito
           ELSE df[j].valor = df[i].valor

\* the index of the first key of the map that, lower-cased, occurs in the
\* lower-cased text; 0 when none does
FirstKeyIn(map, t) ==
  LET part == {k \in 1..Len(map) : Contains(Lower(map[k][1]), Lower(t))}
  IN IF part = {} THEN 0 ELSE Least(part)

\* the precedence of the normalization on a text t: the value of the key equal
\* to t, else the value of the first key inside t, else t
Precedence(map, t) ==
  IF \E k \in 1..Len(map) : map[k][1] = t
  THEN map[CHOOSE k \in 1..Len(map) : map[k][1] = t][2]
  ELSE IF FirstKeyIn(map, t) # 0 THEN map[FirstKeyIn(map, t)][2]
  ELSE t

CategoryOrder ==
  <<"Taxa", "Custo", "Pagamento", "Transferencia", "Operacao", "Resgate",
    "Aplicacao", "Auditoria", "Custodia", "Gestao", "Liquidacao">>

\* the triggers of a category, as categoria_map lists them
TriggersOf(categoria) ==
  LET k == CHOOSE k \in 1..Len(categoria_map) : categoria_map[k].categoria = categoria
  IN {categoria_map[k].keywords[j] : j \in 1..Len(categoria_map[k].keywords)}

\* a trigger of the category occurs in the upper-cased text
Triggered(categoria, t) ==
  \E w \in TriggersOf(categoria) : Contains(Upper(w), Upper(t))

\* the text holds the special phrase, with or without the accent
HasSpecialPhrase(t) ==
  \/ Contains(<<"L","I'","Q","U","I","D","O"," ","N","O"," ","D","I","A">>, Upper(t))
  \/ Contains(<<"L","I","Q","U","I","D","O"," ","N","O"," ","D","I","A">>, Upper(t))

\* the entry texts have been categorized
Categorized ==
  pc \notin {"extract", "normalize_lancamentos", "add_required_columns",
             "categorize_expenses", "raised"}

\* C14: the category of an entry text is the first category, in the order
\* Taxa, Custo, Pagamento, Transferencia, Operacao, Resgate, Aplicacao,
\* Auditoria, Custodia, Gestao, Liquidacao, with a trigger in the upper-cased
\* text; it is Outros when the entry is not a string, and when no trigger and no
\* special phrase occurs in it.
C14_CategoryTableOrder ==
  Categorized =>
     \A i \in 1..Len(df) :
        LET t == df[i].lancamento
            hits == {k \in 1..Len(CategoryOrder) : Triggered(CategoryOrder[k], t)}
        IN IF ~IsStr(t) THEN df[i].categoria = "Outros"
           ELSE IF hits # {} THEN df[i].categoria = CategoryOrder[Least(hits)]
           ELSE ~HasSpecialPhrase(t) => df[i].categoria = "Outros"

\* C14 witness: a text with a trigger of Taxa and a trigger of Custo has been
\* categorized as Taxa.
C14_Witness ==
  /\ Categorized
  /\ \E i \in 1..Len(df) :
        /\ df[i].lancamento = CUSTO_SELIC
        /\ Triggered("Custo", df[i].lancamento)
        /\ df[i].categoria = "Taxa"

\* C15: every entry text that holds the special phrase, with or without the
\* accent and in any case, is categorized as Balanco Diario, also when it holds
\* a trigger of a category of the table.
C15_SpecialPhraseFirst ==
  Categorized =>
     \A i \in 1..Len(df) :
        (IsStr(df[i].lancamento) /\ HasSpecialPhrase(df[i].lancamento)) =>
           df[i].categoria = "Balanco Diario"

\* a phrase of the expense list equals the text or occurs in it, whatever the
\* case
PhraseMatches(list, t) ==
  \E k \in 1..Len(list) :
     \/ Upper(list[k]) = Upper(t)
     \/ Contains(Upper(list[k]), Upper(t))

\* C16: at the end of transform, a row's expense flag is set exactly when its
\* entry is a string and a configured phrase equals it or occurs in it, whatever
\* the case; the flag is not set for an entry that is not a string nor for the
\* empty text; and two rows with the same entry have the same flag.
C16_DespesaFlag ==
  pc = "done" =>
     \A i \in 1..Len(df) :
        LET t == df[i].lancamento
        IN /\ df[i].Despesa <=> (IsStr(t) /\ PhraseMatches(cfg.despesas_list, t))
           /\ (~IsStr(t) \/ t = <<>>) => ~df[i].Despesa
           /\ \A j \in 1..Len(df) :
                 df[j].lancamento = t => df[j].Despesa = df[i].Despesa

\* C16 witness: transform has ended on a batch of two rows with the same entry,
\* in lower case and longer than the phrase it holds, both flagged.
C16_Witness ==
  /\ pc = "done"
  /\ Len(df) = 2
  /\ df[1].lancamento = TAXA_ADM_FIDC
  /\ df[2].lancamento = TAXA_ADM_FIDC
  /\ df[1].Despesa
  /\ df[2].Despesa

\* C17: a second pass of the standardization leaves every label as the first
\* pass made it, for labels of the mapping and labels outside it; the first
\* pass makes 'FIC II' into 'FIC' and 'FIC FIM' into 'FICFIM'.
C17_StandardizationIdempotent ==
  /\ run = 2 => \A i \in 1..Len(df) : df[i].TpFundo = first[i].TpFundo
  /\ pc = "classify_despesas" =>
       \A i \in 1..Len(df) :
          /\ raw[i].TpFundo = "FIC II" => df[i].TpFundo = "FIC"
          /\ raw[i].TpFundo = "FIC FIM" => df[i].TpFundo = "FICFIM"

\* C17 witness: the second pass has run on a table that held 'FIC II' and a
\* label outside the mapping.
C17_Witness ==
  /\ run = 2
  /\ \E i, j \in 1..Len(df) :
        /\ raw[i].TpFundo = "FIC II" /\ df[i].TpFundo = "FIC"
        /\ raw[j].TpFundo = "FIC FIDC" /\ df[j].TpFundo = "FIC FIDC"

\* two tables differ in the categorized name or the fund type of some row
Differ(a, b) ==
  \/ Len(a) # Len(b)
  \/ \E i \in 1..Len(a) :
        \/ a[i].nmcategorizado # b[i].nmcategorizado
        \/ a[i].TpFundo # b[i].TpFundo

\* C18 as stated: there is a statement of the custodian and a mapping for which
\* a second run of _categorize_funds on the result of the first changes the
\* categorized name or the fund type of some row.
C18_NotIdempotentAsStated ==
  \E rows \in SeqsUpTo(RedistRows, MaxRows), m \in RedistMappings :
     LET once == categorize_funds(typed_table(custodiante, rows), m)
     IN Differ(categorize_funds(once, m), once)

\* C18: a second run of _categorize_funds on the result of the first gives
\* every row the categorized name and the fund type the first run gave it: the
\* rows are matched by nome_fundo, which the redistribution does not change.
C18_RedistributionIdempotent ==
  (pc = "manual_mapping" /\ run = 2) => ~Differ(df, first)

\* C18 witness: the second run has ended on a table where the first run had
\* given rows to children of two parents.
C18_Witness ==
  /\ pc = "manual_mapping"
  /\ run = 2
  /\ \E i, j \in 1..Len(first) :
        /\ first[i].nmcategorizado \in {AROEIRA, SECULO}
        /\ first[j].nmcategorizado = ATICO

\* the loop of process_directory has gone through the directory
LoopOver == pc \in {"consolidated", "nothing_processed"}

\* the configuration of the custodian of the k-th file is absent
NoCustodianConfig(k) ==
  ~cfg.has_map_files \/ files[k].custodiante \notin cfg.custodiantes

\* every row of the tables appended has been through transform
AllTransformed ==
  \A t \in 1..Len(all_dfs) :
     \A i \in 1..Len(all_dfs[t]) :
        all_dfs[t][i].categoria # "None" /\ all_dfs[t][i].tpfundo # "None"

\* C19 as stated: when the loop is over, every file whose custodian
\* configuration is absent, and every file when the fund-mapping file is absent,
\* has been reported and has given no table, and every other file has been
\* extracted and transformed and has given its table.
C19_MissingConfigurationAsStated ==
  LoopOver =>
     /\ \A k \in 1..Len(files) :
          (NoCustodianConfig(k) \/ ~cfg.has_fic_fidc_mapping) <=> k \in reported
     /\ Len(all_dfs) = Len(files) - Cardinality(reported)
     /\ AllTransformed

\* C19: when the loop is over, the files reported are those whose extractor
\* raised: every file when map_files.json is absent, and the Daycoval files and
\* the BTG Excel files when their custodian is not listed in it; a Master file
\* or a BTG CSV file of a custodian not listed, and every file when the
\* fund-mapping file is absent, has been extracted and transformed and has
\* given its table, with no row given to a child when the mapping file is
\* absent; every file that is not reported has given its table.
C19_MissingConfiguration ==
  LoopOver =>
     /\ \A k \in 1..Len(files) :
          k \in reported <=>
            \/ ~cfg.has_map_files
            \/ /\ NoCustodianConfig(k)
               /\ \/ files[k].custodiante = "Daycoval"
                  \/ files[k].custodiante = "BTG" /\ files[k].excel
     /\ Len(all_dfs) = Len(files) - Cardinality(reported)
     /\ AllTransformed
     /\ ~cfg.has_fic_fidc_mapping =>
          \A t \in 1..Len(all_dfs) :
             \A i \in 1..Len(all_dfs[t]) :
                all_dfs[t][i].nmcategorizado = all_dfs[t][i].nome_fundo

\* C19 witness: the loop is over on a directory whose first file was reported
\* for its absent custodian configuration and whose second file, a Master file
\* of a custodian not listed either, has given its table.
C19_Witness ==
  /\ LoopOver
  /\ Len(files) = 2
  /\ reported = {1}
  /\ NoCustodianConfig(1)
  /\ NoCustodianConfig(2)
  /\ files[2].custodiante = "Master"
  /\ Len(all_dfs) = 1

\* the key of a row: date, fund name, entry text and amount
Key(row) == <<row.data, row.nome_fundo, row.lancamento, row.valor>>

\* the places of a key in a table
PlacesOf(key, table) == {i \in 1..Len(table) : Key(table[i]) = key}

\* C20: remove_duplicates, on the table transform and normalize_columns made of
\* a file, leaves no two rows with the same (data, nome_fundo, lancamento,
\* valor); of every key of the table it was given it leaves exactly one row,
\* the first row of that key in the table; so it leaves as many rows as there
\* are keys, and removes no row whose key no other row has.
C20_Deduplication ==
  [][pc = "remove_duplicates" =>
       /\ \A a, b \in 1..Len(df') : Key(df'[a]) = Key(df'[b]) => a = b
       /\ \A i \in 1..Len(df) :
             LET key == Key(df[i])
             IN /\ Cardinality(PlacesOf(key, df')) = 1
                /\ \E a \in 1..Len(df') : df'[a] = df[Least(PlacesOf(key, df))]
       /\ Len(df') = Cardinality({Key(df[i]) : i \in 1..Len(df)})]_vars

\* C20 witness: of a statement of three rows, the second the first record
\* written another way and the third another record, the deduplication has
\* left the first row and the third.
C20_Witness ==
  /\ pc = "fill_missing_values"
  /\ Len(raw) = 3
  /\ raw[1].lancamento = TAXA_ADM
  /\ raw[2].lancamento = TX_ADM
  /\ raw[3].lancamento = RESGATE
  /\ Len(df) = 2
  /\ df[1].lancamento_original = TAXA_ADM
  /\ df[2].lancamento = RESGATE

\* the amount a credit/debit custodian reads in a cell of a money column
CellAmount(cust, x) ==
  IF cust = "Master" THEN convert_monetary_value(x) ELSE daycoval_value(x)

\* the credit amount of a row, 0.0 when the cell holds none
CreditAmount(cust, r) ==
  IF CellAmount(cust, r.credito).nan THEN Zero ELSE CellAmount(cust, r.credito)

\* the extraction of a Master or Daycoval statement has ended
CreditDebitExtracted ==
  custodiante \in {"Master", "Daycoval"} /\ pc = "normalize_lancamentos"

\* C21 as stated: after the extraction of a Master or Daycoval statement, a
\* row whose debit is a number other than zero has valor = |debit| and kind
\* Debito, whatever its credit; every other row has valor = its credit amount
\* (0.0 when there is none) and kind Credito.
C21_DebitPrecedenceAsStated ==
  CreditDebitExtracted =>
     \A i \in 1..Len(raw) :
        LET debit == CellAmount(custodiante, raw[i].debito)
        IN IF NotZero(debit)
           THEN df[i].valor = Abs(debit) /\ df[i].tipo_lancamento = "Debito"
           ELSE /\ df[i].valor = CreditAmount(custodiante, raw[i])
                /\ df[i].tipo_lancamento = "Credito"

\* C21: after the extraction of a Master or Daycoval statement, a row whose
\* debit is a number other than zero has valor = |debit| and kind Debito,
\* whatever its credit; every other row has kind Credito and valor = its credit
\* amount (0.0 when there is none), with its sign in a Master statement and
\* without it in a Daycoval statement.
C21_DebitPrecedence ==
  CreditDebitExtracted =>
     \A i \in 1..Len(raw) :
        LET debit == CellAmount(custodiante, raw[i].debito)
            credit == CreditAmount(custodiante, raw[i])
        IN IF NotZero(debit)
           THEN df[i].valor = Abs(debit) /\ df[i].tipo_lancamento = "Debito"
           ELSE /\ df[i].valor = IF custodiante = "Daycoval" THEN Abs(credit) ELSE credit
                /\ df[i].tipo_lancamento = "Credito"

\* C21 witness: a row with a credit and a debit, both numbers other than zero,
\* has left the extraction with the debit as its amount.
C21_Witness ==
  /\ CreditDebitExtracted
  /\ \E i \in 1..Len(raw) :
        /\ raw[i].credito = V_1234_56
        /\ raw[i].debito = V_MINUS
        /\ df[i].valor = Amount(5, 0)
        /\ df[i].tipo_lancamento = "Debito"

\* the upper-cased fund name of a row holds the text
NameHolds(text, row) ==
  IsStr(row.nome_fundo) /\ Contains(text, Strip(Upper(row.nome_fundo)))

\* some pattern of the k-th entry of the table is classified as that entry
ReachableEntry(k) ==
  \E j \in 1..Len(patterns[k].type_patterns) :
     determine_fund_type(patterns[k].type_patterns[j]) = patterns[k].fund_type

\* C22: when _determine_fund_type has typed the rows, a name that holds
\* "FIC FIM CP" has type 'FICFIM CP', a name that holds "FIC FIDC" has type
\* 'FICFIDC', a name that holds "FIM CP" without "FIC FIM CP" has type
\* 'FIM CP', and a name that holds "FIC FIA" has type 'FICFIA'; and every
\* entry of the table is the type of a name made of one of its patterns.
C22_SpecificBeforeGeneral ==
  pc = "categorize_funds" =>
     /\ \A i \in 1..Len(df) :
          /\ NameHolds(<<"F","I","C"," ","F","I","M"," ","C","P">>, df[i])
               => df[i].TpFundo = "FICFIM CP"
          /\ NameHolds(<<"F","I","C"," ","F","I","D","C">>, df[i])
               => df[i].TpFundo = "FICFIDC"
          /\ (/\ NameHolds(<<"F","I","M"," ","C","P">>, df[i])
              /\ ~NameHolds(<<"F","I","C"," ","F","I","M"," ","C","P">>, df[i]))
               => df[i].TpFundo = "FIM CP"
          /\ NameHolds(<<"F","I","C"," ","F","I","A">>, df[i])
               => df[i].TpFundo = "FICFIA"
     /\ \A k \in 1..Len(patterns) : ReachableEntry(k)

\* the parent the loop of _categorize_funds is about to process
SplitParent == cfg.fidc_to_fics[fi]

\* the rows that parent matches, and how many of them are to be distributed
SplitMatched == fidc_rows(df, SplitParent.fidc)

SplitRemainder ==
  Cardinality(SplitMatched) - Max(Cardinality(SplitMatched) \div 2, 1)

\* the matched rows the iteration puts under the j-th child of the list
ReceivedBy(j) ==
  {i \in SplitMatched : /\ df'[i].nmcategorizado = SplitParent.fics[j]
                        /\ df[i].nmcategorizado # SplitParent.fics[j]}

\* the loop processes a parent with a usable child list and matched rows
SplitStep ==
  /\ pc = "categorize_funds_loop"
  /\ fi <= Len(cfg.fidc_to_fics)
  /\ fi' = fi + 1
  /\ ~skip_parent(SplitParent.fics)
  /\ SplitMatched # {}

\* the rows the iteration gave to no child are as they were
LeftoverUntouched ==
  \A i \in 1..Len(df) :
     (\A j \in 1..Len(SplitParent.fics) : i \notin ReceivedBy(j)) => df'[i] = df[i]

C24_ReassignedType ==
  pc = "done" =>
     \A i \in 1..Len(df) :
        (df[i].nmcategorizado # df[i].nome_fundo /\ df[i].nmcategorizado \in ChildNames)
           => df[i].TpFundo =
                 standardize_fund_type(determine_fic_type(df[i].nmcategorizado))

\* a child list that is empty or starts with the sentinel
NotUsable(fics) == fics = <<>> \/ fics[1] = <<"-">>

CategorizeFundsCompleted == fi > Len(cfg.fidc_to_fics)

C27_SentinelNeverCategorized ==
  Redistributed =>
     \A i \in 1..Len(df) :
        /\ df[i].nmcategorizado # <<"-">>
        /\ (\A k \in 1..Len(cfg.fidc_to_fics) :
               i \in fidc_rows(df, cfg.fidc_to_fics[k].fidc)
                  => NotUsable(cfg.fidc_to_fics[k].fics))
              => df[i].nmcategorizado = df[i].nome_fundo

(***************************************************************************)
(* _categorize_expenses on the trigger keywords themselves: one statement   *)
(* per keyword of categoria_map, the keyword being the whole entry text.    *)
(***************************************************************************)
KeywordRows ==
  UNION {{RawRow(LION, categoria_map[k].keywords[j], V_12649_14, <<>>, V_12649_14) :
            j \in 1..Len(categoria_map[k].keywords)} : k \in 1..Len(categoria_map)}

InitKeywords ==
  /\ custodiante = "Master"
  /\ raw \in {<<r>> : r \in KeywordRows}
  /\ cfg = Config(<<Parent(LION_PARENT, <<LION_FIC>>)>>, DefaultProfile)
  /\ rng = [seed |-> 0, pos |-> 0]
  /\ InitCommon

SpecKeywords == InitKeywords /\ [][Next]_vars

\* C28: an entry text that is a trigger keyword of a category, as the table
\* lists it, is categorized as that category.
C28_KeywordSelectsOwnCategory ==
  Categorized =>
     \A i \in 1..Len(df) : \A k \in 1..Len(categoria_map) :
        (\E j \in 1..Len(categoria_map[k].keywords) :
            raw[i].lancamento = categoria_map[k].keywords[j])
           => df[i].categoria = categoria_map[k].categoria

\* the keywords of the table that are categorized as their own category: all
\* but "CUSTODIA" and "CUSTODY", which hold the trigger "CUSTO" of Custo
C28_OtherKeywords ==
  Categorized =>
     \A i \in 1..Len(df) : \A k \in 1..Len(categoria_map) :
        (/\ \E j \in 1..Len(categoria_map[k].keywords) :
               raw[i].lancamento = categoria_map[k].keywords[j]
         /\ raw[i].lancamento \notin {<<"C","U","S","T","O","D","I","A">>,
                                      <<"C","U","S","T","O","D","Y">>})
           => df[i].categoria = categoria_map[k].categoria

\* C29: in a save_to_mysql with truncate set, rows are in the destination
\* table only once the table has been truncated; after a truncate_table that
\* failed no row is inserted and no procedure executed; and procedures are
\* executed only after an insertion of at least one row.
C29_TruncateBeforeInsert ==
  /\ (sink.truncate /\ sink.loaded # <<>>) => sink.truncated = "ok"
  /\ sink.truncated = "failed" => (sink.loaded = <<>> /\ sink.procedures = <<>>)
  /\ sink.procedures # <<>> => sink.inserted >= 1

\* what holds of the calls: the truncation, when asked for, is attempted
\* before any row is inserted, and procedures are executed only after an
\* insertion of at least one row, with run_procedures set
C29_CallOrder ==
  /\ (sink.truncate /\ sink.loaded # <<>>) => sink.truncated \in {"ok", "failed"}
  /\ (~sink.truncate) => sink.truncated = "no"
  /\ sink.procedures # <<>> => (sink.inserted >= 1 /\ sink.run_procedures)

\* C30: in the table process_directory concatenates from the tables of its
\* files no two rows have the same date, fund name, entry text and amount.
C30_DirectoryDeduplication ==
  pc = "consolidated" =>
     \A i \in 1..Len(df) : \A j \in 1..Len(df) :
        Key(df[i]) = Key(df[j]) => i = j
====
